---- MODULE Spec2Model ----
(***************************************************************************)
(* A model of the OpenRouter image MCP server: process startup (main), the *)
(* centralized CallTool handler, the three tool handlers, the image        *)
(* normalizer (ImageProcessor) and the upstream adapter                    *)
(* (OpenRouterClient.analyzeImage).  Each tool call runs as its own        *)
(* asynchronous unit of work; file reads, URL fetches, upstream responses  *)
(* and timers complete in any interleaving.                                *)
(***************************************************************************)
EXTENDS Integers, Sequences, FiniteSets, TLC

VARIABLES
    env,        \* the process environment read at startup
    mainPc,     \* position of main()
    proc,       \* "running" or "exited"
    exitCode,   \* the exit status once exited, -1 before
    startupError, \* message of the error that ended startup, "" if none
    connected,  \* the stdio transport is connected
    connectionTest, \* result of testConnection(): "none", TRUE or FALSE
    modelValid, \* result of validateModel(): "none", TRUE or FALSE
    calls,      \* one record per tool-call slot
    adapter,    \* one analyzeImage() call, followed on its own
    normalizer, \* one processImage() call, followed on its own
    handler,    \* the server's handler for CallTool requests
    out         \* what has been written to standard output and standard error

vars == <<env, mainPc, proc, exitCode, startupError, connected,
          connectionTest, modelValid, calls, adapter, normalizer, handler, out>>

(***************************************************************************)
(* Bounds                                                                  *)
(***************************************************************************)
\* Tool calls that may be in flight at the same time under Spec.
MaxCalls == 1
\* Tool calls in flight at the same time under SpecConc.
ConcCalls == 5
\* The longest message content, in lexemes, drawn from JsonLexemes
MaxContentLen == 5

CallIds == 1..MaxCalls

(***************************************************************************)
(* Configuration (src/config/index.ts)                                     *)
(***************************************************************************)
DefaultMaxImageSize == 10485760
DefaultRetryAttempts == 3

\* OPENROUTER_API_KEY: absent, set to the empty string, or set.
ApiKeyValues == {"unset", "empty", "set"}
\* An optional number is [set, n]; Unset is the absent one.
Unset == [set |-> FALSE, n |-> 0]
Num(n) == [set |-> TRUE, n |-> n]

\* validateEnvironment(): !process.env.OPENROUTER_API_KEY
validateEnvironmentLax(key) == key = "unset"
validateEnvironment(key) == key \in {"unset", "empty"}

\* parseInt(process.env.X || '<default>')
parseIntOr(v, default) == IF v.set THEN v.n ELSE default

\* Config constructor: serverConfig
getServerConfig(e) ==
    [ retryAttempts |-> parseIntOr(e.retryAttempts, DefaultRetryAttempts),
      maxImageSize  |-> parseIntOr(e.maxImageSize, DefaultMaxImageSize) ]

\* const maxImageSize = serverConfig.maxImageSize || 10485760
maxImageSizeDefaultOnly(cfg) == 10485760
maxImageSizeOf(cfg) ==
    IF cfg.maxImageSize = 0 THEN 10485760 ELSE cfg.maxImageSize

(***************************************************************************)
(* Image normalizer (src/utils/image-processor.ts)                         *)
(*                                                                         *)
(* A byte buffer is the record [id, size, sharp, head, webp8]: id names    *)
(* the content, size is its byte length, sharp is the format name the      *)
(* header parser reports ("fail" when parsing throws), head is the        *)
(* sequence of its first bytes, four at most, and webp8 says whether bytes *)
(* 8-11 are ASCII "WEBP".  A string too long to write out is the record    *)
(* [id, len].  The data argument of a tool call is the record              *)
(* [id, lead, len, pad, bad, buf]: for a file or url input id is the path  *)
(* or URL; for a base64 input lead is the sequence of its leading          *)
(* characters written out (a data-URL prefix, <<>> if none), and what      *)
(* follows them is named id and has len characters, of which pad are       *)
(* trailing '=' and bad are outside the base64 alphabet; buf is the bytes  *)
(* its alphabet characters decode to.                                      *)
(***************************************************************************)
\* The string a sequence of strings spells
RECURSIVE Text(_)
Text(content) ==
    IF content = <<>> THEN "" ELSE Head(content) \o Text(Tail(content))

SupportedTypes == {"image/jpeg", "image/png", "image/webp", "image/gif"}

\* isValidImageType(mimeType): validTypes.includes(mimeType)
isValidImageTypeAny(mimeType) == TRUE
isValidImageType(mimeType) == mimeType \in SupportedTypes

\* signature.startsWith(sig), on the bytes the hex signature spells
startsWith(bytes, sig) ==
    Len(bytes) >= Len(sig) /\ SubSeq(bytes, 1, Len(sig)) = sig

\* detectFromSignature(buffer)
detectFromSignatureNoLength(buffer) ==
    IF startsWith(buffer.head, <<255, 216, 255>>) THEN "image/jpeg"
    ELSE IF buffer.head = <<137, 80, 78, 71>> THEN "image/png"
    ELSE IF buffer.head = <<71, 73, 70, 56>> THEN "image/gif"
    ELSE IF buffer.head = <<82, 73, 70, 70>> /\ buffer.size > 12 /\ buffer.webp8
         THEN "image/webp"
    ELSE "application/octet-stream"
detectFromSignature(buffer) ==
    IF buffer.size < 4 THEN "application/octet-stream"
    ELSE IF startsWith(buffer.head, <<255, 216, 255>>) THEN "image/jpeg"
    ELSE IF buffer.head = <<137, 80, 78, 71>> THEN "image/png"
    ELSE IF buffer.head = <<71, 73, 70, 56>> THEN "image/gif"
    ELSE IF buffer.head = <<82, 73, 70, 70>> /\ buffer.size > 12 /\ buffer.webp8
         THEN "image/webp"
    ELSE "application/octet-stream"

\* detectMimeType(buffer): sharp(buffer).metadata().format, else the signature
detectMimeType(buffer) ==
    CASE buffer.sharp = "jpeg" -> "image/jpeg"
      [] buffer.sharp = "png"  -> "image/png"
      [] buffer.sharp = "webp" -> "image/webp"
      [] buffer.sharp = "gif"  -> "image/gif"
      [] OTHER -> detectFromSignature(buffer)

\* detectMimeTypeFromHeaders(headers): the content-type header up to the
\* first ';', or null ("") when the header is absent or not a string.
\* A header is the record [present, type, params]: type is the text before
\* the first ';', trimmed.
NoHeader == [present |-> FALSE, type |-> "", params |-> ""]
Header(type, params) == [present |-> TRUE, type |-> type, params |-> params]
detectMimeTypeFromHeadersNever(header) == ""
detectMimeTypeFromHeaders(header) == IF header.present THEN header.type ELSE ""

\* buffer.toString('base64'): 4 characters for every 3 bytes, padded
Base64Len(size) == 4 * ((size + 2) \div 3)
toBase64(buffer) == [id |-> buffer.id, len |-> Base64Len(buffer.size)]

Ok(image) == [ok |-> TRUE, image |-> image, error |-> ""]
Err(message) == [ok |-> FALSE, image |-> [data |-> [id |-> "", len |-> 0],
                                          mimeType |-> "", size |-> 0],
                 error |-> message]

\* data.replace(/^data:image\/[a-z]+;base64,/, ''): the number of leading
\* characters the regular expression matches, 0 if it does not match
RECURSIVE lowerRun(_, _)
lowerRun(chars, i) ==
    LET LowerCase ==
          {"a", "b", "c", "d", "e", "f", "g", "h", "i", "j", "k", "l", "m",
           "n", "o", "p", "q", "r", "s", "t", "u", "v", "w", "x", "y", "z"}
    IN IF i <= Len(chars) /\ chars[i] \in LowerCase
       THEN lowerRun(chars, i + 1) ELSE i
dataUrlPrefixLenNone(chars) == 0
dataUrlPrefixLen(chars) ==
    LET scheme == <<"d", "a", "t", "a", ":", "i", "m", "a", "g", "e", "/">>
        tail   == <<";", "b", "a", "s", "e", "6", "4", ",">>
        j      == lowerRun(chars, 12)
    IN IF /\ Len(chars) >= 11 /\ SubSeq(chars, 1, 11) = scheme
          /\ j > 12 /\ j + 7 <= Len(chars) /\ SubSeq(chars, j, j + 7) = tail
       THEN j + 7 ELSE 0

\* Buffer.from(base64Data, 'base64'): characters outside the alphabet are
\* skipped, every four of the others give three bytes, and nothing throws
Base64Alphabet ==
    <<"A", "B", "C", "D", "E", "F", "G", "H", "I", "J", "K", "L", "M",
      "N", "O", "P", "Q", "R", "S", "T", "U", "V", "W", "X", "Y", "Z",
      "a", "b", "c", "d", "e", "f", "g", "h", "i", "j", "k", "l", "m",
      "n", "o", "p", "q", "r", "s", "t", "u", "v", "w", "x", "y", "z",
      "0", "1", "2", "3", "4", "5", "6", "7", "8", "9", "+", "/">>
\* ('-' and '_' of the URL-safe alphabet stand for '+' and '/')
IsBase64Char(ch) == ch \in {"-", "_"} \/ \E i \in 1..64 : Base64Alphabet[i] = ch
Sextet(ch) ==
    CASE ch = "-" -> 62
      [] ch = "_" -> 63
      [] OTHER -> (CHOOSE i \in 1..64 : Base64Alphabet[i] = ch) - 1
Base64DecodedLenEstimate(valid) == (valid * 3 + 3) \div 4
Base64DecodedLen(valid) == (valid * 6) \div 8
\* the first bytes, four at most, the alphabet characters v decode to
Base64DecodedHead(v) ==
    LET x(i) == Sextet(v[i])
        b1 == x(1) * 4 + x(2) \div 16
        b2 == (x(2) % 16) * 16 + x(3) \div 4
        b3 == (x(3) % 4) * 64 + x(4)
        b4 == x(5) * 4 + x(6) \div 16
    IN CASE Len(v) >= 6 -> <<b1, b2, b3, b4>>
         [] Len(v) >= 4 -> <<b1, b2, b3>>
         [] Len(v) = 3  -> <<b1, b2>>
         [] Len(v) = 2  -> <<b1>>
         [] OTHER       -> <<>>

\* processBase64Image(data, mimeType)
processBase64Image(data, mimeType) ==
    LET m == dataUrlPrefixLen(data.lead)
        rest == SubSeq(data.lead, m + 1, Len(data.lead))
        base64Data == [id |-> Text(rest) \o data.id, len |-> Len(rest) + data.len]
        valid == Len(SelectSeq(rest, IsBase64Char)) + data.len - data.pad - data.bad
        buffer ==
            IF rest = <<>>
            THEN [data.buf EXCEPT !.size = Base64DecodedLen(valid)]
            ELSE [id |-> base64Data.id, size |-> Base64DecodedLen(valid),
                  sharp |-> "fail", head |-> Base64DecodedHead(SelectSeq(rest, IsBase64Char)),
                  webp8 |-> FALSE]
    IN IF base64Data.len = 0
       THEN Err("Base64 image processing failed: Empty or invalid base64 data provided")
       ELSE IF buffer.size = 0
       THEN Err("Base64 image processing failed: Base64 data resulted in empty buffer")
       ELSE Ok([ data     |-> base64Data,
                 mimeType |-> IF mimeType # "" THEN mimeType
                              ELSE detectMimeType(buffer),
                 size     |-> buffer.size ])

\* processFileImage(filePath): read is the outcome of readFile(filePath)
processFileImage(filePath, read) ==
    IF ~read.ok
    THEN Err("Failed to read file " \o filePath \o ": " \o read.error)
    ELSE Ok([ data     |-> toBase64(read.buffer),
              mimeType |-> detectMimeType(read.buffer),
              size     |-> read.buffer.size ])

\* processUrlImage(url): get is the outcome of axios.get(url, ...)
processUrlImage(url, get) ==
    IF ~get.ok
    THEN Err("Failed to fetch image from URL " \o url \o ": " \o get.error)
    ELSE Ok([ data     |-> toBase64(get.buffer),
              mimeType |-> IF detectMimeTypeFromHeaders(get.header) # ""
                           THEN detectMimeTypeFromHeaders(get.header)
                           ELSE detectMimeType(get.buffer),
              size     |-> get.buffer.size ])

\* processImage(input): io is the outcome of the file read or URL GET
\* (unused for base64 and for an unsupported input type).
processImage(input, io) ==
    CASE input.type = "base64" -> processBase64Image(input.data, input.mimeType)
      [] input.type = "file"   -> processFileImage(input.data.id, io)
      [] input.type = "url"    -> processUrlImage(input.data.id, io)
      [] OTHER -> Err("Unsupported image input type: " \o input.type)

(***************************************************************************)
(* Upstream adapter (OpenRouterClient, utils/openrouter-client.ts)         *)
(***************************************************************************)
ConfigModel == "anthropic/claude-3.5-sonnet"

DefaultPromptText == "Analyze this image in detail. Describe what you see, including objects, people, text, and any notable features."
\* A prompt is [text, len]; the absent prompt is NoPrompt.
NoPrompt == [text |-> "", len |-> 0]
Prompt(text) == [text |-> text, len |-> Len(text)]
DefaultPrompt == Prompt(DefaultPromptText)

\* A thrown value: an Error, an AxiosError (with the response's status and
\* body when there was a response), or any other value.
PlainError(message) ==
    [kind |-> "Error", message |-> message, status |-> "undefined",
     bodyError |-> "", bodyMessage |-> ""]
AxiosError(message, status, bodyError, bodyMessage) ==
    [kind |-> "AxiosError", message |-> message, status |-> status,
     bodyError |-> bodyError, bodyMessage |-> bodyMessage]
OtherThrown == [kind |-> "other", message |-> "", status |-> "undefined",
                bodyError |-> "", bodyMessage |-> ""]

\* extractErrorMessage(error)
extractErrorMessageTopFirst(error) ==
    IF error.kind = "AxiosError"
    THEN IF error.bodyMessage # "" THEN "OpenRouter API Error: " \o error.bodyMessage
         ELSE IF error.bodyError # "" THEN "OpenRouter API Error: " \o error.bodyError
         ELSE "HTTP " \o error.status \o ": " \o error.message
    ELSE IF error.kind = "Error" THEN error.message
    ELSE "Unknown error occurred"
extractErrorMessage(error) ==
    IF error.kind = "AxiosError"
    THEN IF error.bodyError # "" THEN "OpenRouter API Error: " \o error.bodyError
         ELSE IF error.bodyMessage # "" THEN "OpenRouter API Error: " \o error.bodyMessage
         ELSE "HTTP " \o error.status \o ": " \o error.message
    ELSE IF error.kind = "Error" THEN error.message
    ELSE "Unknown error occurred"

\* An ImageAnalysisResult; an unset field is "" (NoUsage for usage).
NoUsage == [set |-> FALSE, promptTokens |-> 0, completionTokens |-> 0,
            totalTokens |-> 0]
NoStructured == [tag |-> "undefined", value |-> [t |-> "null", s |-> "", kids |-> <<>>], text |-> ""]
FailureWithModel(message) ==
    [success |-> FALSE, analysis |-> "", structuredData |-> NoStructured,
     error |-> message, model |-> ConfigModel, usage |-> NoUsage]
Failure(message) ==
    [success |-> FALSE, analysis |-> "", structuredData |-> NoStructured,
     error |-> message, model |-> "", usage |-> NoUsage]

\* A settled promise
Resolved(value) == [settled |-> "resolved", value |-> value, reason |-> ""]
Rejected(message) ==
    [settled |-> "rejected", value |-> Failure(""), reason |-> message]

\* analyzeImage, the catch block: log, extract the message, return a failure
analyzeImageRethrow(error) == Rejected(extractErrorMessage(error))
analyzeImageCatch(error) == Resolved(Failure(extractErrorMessage(error)))

\* min(options.maxTokens || 4000, 8000)
maxTokensUncapped(options) ==
    IF options.maxTokens.set /\ options.maxTokens.n # 0
    THEN options.maxTokens.n ELSE 4000
maxTokensOf(options) ==
    LET requested == IF options.maxTokens.set /\ options.maxTokens.n # 0
                     THEN options.maxTokens.n ELSE 4000
    IN IF requested < 8000 THEN requested ELSE 8000

\* options.temperature || 0.1, in tenths
temperatureOf(options) ==
    IF options.temperature.set /\ options.temperature.n # 0
    THEN options.temperature.n ELSE 1

\* if (imageData.length > 20 * 1024 * 1024)
imageDataTooLargeNever(imageData) == FALSE
imageDataTooLarge(imageData) == imageData.len > 20 * 1024 * 1024

\* analyzeImage up to the POST: the input validation and the request body.
\* [ok, error, body]: the error thrown by a failed validation, or the body.
NoBody == [model |-> "", text |-> "", mimeType |-> "",
           imageData |-> [id |-> "", len |-> 0], max_tokens |-> 0,
           temperature |-> 0, response_format |-> ""]
analyzeImageRequest(imageData, mimeType, prompt, options) ==
    LET promptText == IF prompt.len # 0 THEN prompt ELSE DefaultPrompt
        thrown(m) == [ok |-> FALSE, error |-> PlainError(m), body |-> NoBody]
    IN IF imageData.len = 0 THEN thrown("No image data provided")
       ELSE IF mimeType = "" THEN thrown("No MIME type provided")
       ELSE IF imageDataTooLarge(imageData)
       THEN thrown("Image data too large: " \o ToString(imageData.len)
                   \o " characters. Maximum allowed is 20MB.")
       ELSE IF promptText.len > 10000
       THEN thrown("Prompt too long: " \o ToString(promptText.len)
                   \o " characters. Maximum allowed is 10000.")
       ELSE [ok |-> TRUE, error |-> OtherThrown,
             body |-> [ model |-> ConfigModel,
                        text |-> promptText.text,
                        mimeType |-> mimeType,
                        imageData |-> imageData,
                        max_tokens |-> maxTokensOf(options),
                        temperature |-> temperatureOf(options),
                        response_format |-> IF options.format = "json"
                                            THEN "json_object" ELSE "" ]]

\* A message content is the sequence of its lexemes, <<>> the empty string:
\* the JSON punctuation, string and number literals, null, white space, and
\* runs of other text.  Text(content) is the string itself.

\* JSON values: [t, s, kids]; t is "null", "num", "str", "arr" or "obj", s
\* the number as JavaScript prints it or the string's characters, kids the
\* elements [k |-> "", v |-> value] or the members [k |-> key, v |-> value]
JNull == [t |-> "null", s |-> "", kids |-> <<>>]
JNumber(s) == [t |-> "num", s |-> s, kids |-> <<>>]
JString(s) == [t |-> "str", s |-> s, kids |-> <<>>]
JArray(kids) == [t |-> "arr", s |-> "", kids |-> kids]
JObject(kids) == [t |-> "obj", s |-> "", kids |-> kids]

\* The lexemes of the JSON grammar met here
IsWs(t) == t \in {" ", "\n"}
IsStringLiteral(t) == t \in {"\"a\"", "\"b\"", "\"\""}
StringValue(t) ==
    CASE t = "\"a\"" -> "a" [] t = "\"b\"" -> "b" [] OTHER -> ""
IsNumberLiteral(t) == t \in {"1", "42", "1.0"}
NumberValue(t) == IF t = "1.0" THEN "1" ELSE t

RECURSIVE skipWs(_, _)
skipWs(toks, i) ==
    IF i <= Len(toks) /\ IsWs(toks[i]) THEN skipWs(toks, i + 1) ELSE i

\* An object keeps one member a key, the last value at the first position
RECURSIVE putMember(_, _, _)
putMember(kids, key, value) ==
    IF kids = <<>> THEN <<[k |-> key, v |-> value]>>
    ELSE IF Head(kids).k = key THEN <<[k |-> key, v |-> value]>> \o Tail(kids)
    ELSE <<Head(kids)>> \o putMember(Tail(kids), key, value)

ParseFail == [ok |-> FALSE, value |-> JNull, next |-> 0]
ParseOk(value, next) == [ok |-> TRUE, value |-> value, next |-> next]

\* The JSON grammar by recursive descent from lexeme i: [ok, value, next]
RECURSIVE parseValue(_, _)
RECURSIVE parseElements(_, _, _)
RECURSIVE parseMembers(_, _, _)
parseValue(toks, i) ==
    LET j == skipWs(toks, i)
    IN IF j > Len(toks) THEN ParseFail
       ELSE IF IsStringLiteral(toks[j]) THEN ParseOk(JString(StringValue(toks[j])), j + 1)
       ELSE IF IsNumberLiteral(toks[j]) THEN ParseOk(JNumber(NumberValue(toks[j])), j + 1)
       ELSE IF toks[j] = "null" THEN ParseOk(JNull, j + 1)
       ELSE IF toks[j] = "["
       THEN LET k == skipWs(toks, j + 1)
            IN IF k <= Len(toks) /\ toks[k] = "]" THEN ParseOk(JArray(<<>>), k + 1)
               ELSE parseElements(toks, k, <<>>)
       ELSE IF toks[j] = "{"
       THEN LET k == skipWs(toks, j + 1)
            IN IF k <= Len(toks) /\ toks[k] = "}" THEN ParseOk(JObject(<<>>), k + 1)
               ELSE parseMembers(toks, k, <<>>)
       ELSE ParseFail
parseElements(toks, i, acc) ==
    LET e == parseValue(toks, i)
        k == skipWs(toks, e.next)
    IN IF ~e.ok \/ k > Len(toks) THEN ParseFail
       ELSE IF toks[k] = ","
       THEN parseElements(toks, k + 1, Append(acc, [k |-> "", v |-> e.value]))
       ELSE IF toks[k] = "]"
       THEN ParseOk(JArray(Append(acc, [k |-> "", v |-> e.value])), k + 1)
       ELSE ParseFail
parseMembers(toks, i, acc) ==
    LET j == skipWs(toks, i)
        c == skipWs(toks, j + 1)
    IN IF j > Len(toks) \/ c > Len(toks) THEN ParseFail
       ELSE IF ~IsStringLiteral(toks[j]) \/ toks[c] # ":" THEN ParseFail
       ELSE LET e == parseValue(toks, c + 1)
                k == skipWs(toks, e.next)
                kids == putMember(acc, StringValue(toks[j]), e.value)
            IN IF ~e.ok \/ k > Len(toks) THEN ParseFail
               ELSE IF toks[k] = "," THEN parseMembers(toks, k + 1, kids)
               ELSE IF toks[k] = "}" THEN ParseOk(JObject(kids), k + 1)
               ELSE ParseFail

\* JSON.parse(content): [ok, value]; ok is FALSE when parsing throws
JSONParse(content) ==
    LET r == parseValue(content, 1)
    IN IF r.ok /\ skipWs(content, r.next) > Len(content)
       THEN [ok |-> TRUE, value |-> r.value]
       ELSE [ok |-> FALSE, value |-> JNull]

\* JSON.stringify(value, null, 2): members and elements one a line, each
\* level indented by two more spaces
RECURSIVE stringify(_, _)
RECURSIVE stringifyKids(_, _, _)
stringify(value, indent) ==
    CASE value.t = "null" -> "null"
      [] value.t = "num"  -> value.s
      [] value.t = "str"  -> "\"" \o value.s \o "\""
      [] value.t = "arr"  ->
            IF value.kids = <<>> THEN "[]"
            ELSE "[\n" \o stringifyKids(value.kids, indent \o "  ", FALSE)
                 \o "\n" \o indent \o "]"
      [] OTHER ->
            IF value.kids = <<>> THEN "{}"
            ELSE "{\n" \o stringifyKids(value.kids, indent \o "  ", TRUE)
                 \o "\n" \o indent \o "}"
stringifyKids(kids, indent, keyed) ==
    LET first == indent
                 \o (IF keyed THEN "\"" \o Head(kids).k \o "\": " ELSE "")
                 \o stringify(Head(kids).v, indent)
    IN IF Len(kids) = 1 THEN first
       ELSE first \o ",\n" \o stringifyKids(Tail(kids), indent, keyed)
JSONStringify(value) == stringify(value, "")

\* An upstream response body: [isNull, hasChoices, choices, usage]; a choice
\* is [isNull, content], content <<>> when message or content is missing or
\* the empty string.
NoBodyData == [isNull |-> TRUE, hasChoices |-> FALSE, choices |-> <<>>,
               usage |-> NoUsage]
Body(choices, usage) == [isNull |-> FALSE, hasChoices |-> TRUE,
                         choices |-> choices, usage |-> usage]
Choice(content) == [isNull |-> FALSE, content |-> content]
SomeUsage == [set |-> TRUE, promptTokens |-> 50, completionTokens |-> 100,
              totalTokens |-> 150]

\* The outcome of client.post('/chat/completions', body)
PostOk(data) == [ok |-> TRUE, data |-> data, error |-> OtherThrown]
PostFailed(error) == [ok |-> FALSE, data |-> NoBodyData, error |-> error]

NoOutcome == [ok |-> FALSE, data |-> NoBodyData, error |-> OtherThrown]
NoPromise == [settled |-> "none", value |-> Failure(""), reason |-> ""]

\* if (!content)
emptyContentNever(content) == FALSE
emptyContent(content) == content = <<>>

\* if (options.format === 'json')
wantsJsonNever(options) == FALSE
wantsJson(options) == options.format = "json"

\* The success result; structuredData is [tag, value, text]: the parsed JSON
\* value (tag "parsed") or the object {analysis: text} (tag "analysis")
AnalysisOnly(text) ==
    [tag |-> "analysis", value |-> JNull, text |-> text]
Success(analysis, structuredData, usage) ==
    Resolved([ success |-> TRUE, analysis |-> analysis,
               structuredData |-> structuredData, error |-> "",
               model |-> ConfigModel, usage |-> usage ])

\* The catch of JSON.parse: the content is treated as text
parseFailedRethrow(content, usage) ==
    analyzeImageCatch(PlainError("Unexpected token in JSON at position 0"))
parseFailed(content, usage) ==
    Success(Text(content), AnalysisOnly(Text(content)), usage)

\* analyzeImage from the POST's outcome to its return
analyzeImageResponse(options, outcome) ==
    IF ~outcome.ok THEN analyzeImageCatch(outcome.error)
    ELSE IF outcome.data.isNull
    THEN analyzeImageCatch(PlainError(
             "Cannot read properties of null (reading 'choices')"))
    ELSE IF ~outcome.data.hasChoices \/ Len(outcome.data.choices) = 0
    THEN analyzeImageCatch(PlainError("No response from model"))
    ELSE IF outcome.data.choices[1].isNull
    THEN analyzeImageCatch(PlainError("No response from model"))
    ELSE IF emptyContent(outcome.data.choices[1].content)
    THEN analyzeImageCatch(PlainError("Empty response from model"))
    ELSE LET content == outcome.data.choices[1].content
             parsed == JSONParse(content)
         IN IF wantsJson(options)
            THEN IF parsed.ok
                 THEN Success(JSONStringify(parsed.value),
                              [tag |-> "parsed", value |-> parsed.value, text |-> ""],
                              outcome.data.usage)
                 ELSE parseFailed(content, outcome.data.usage)
            ELSE Success(Text(content), AnalysisOnly(Text(content)),
                         outcome.data.usage)

(***************************************************************************)
(* Tool dispatch (src/index.ts, src/tools/*.ts)                            *)
(***************************************************************************)
ToolNames == {"analyze_image", "analyze_webpage_screenshot",
              "analyze_mobile_app_screenshot"}

\* handleAnalyzeImage races the image processing against a 30 s timer and the
\* analysis against a 120 s timer
handleAnalyzeImageTimeouts == TRUE
\* handleAnalyzeMobileApp awaits processImage and analyzeImage directly
handleAnalyzeMobileAppTimeouts == FALSE
\* handleAnalyzeWebpage: the dispatch layer's one-shot operation timeouts
handleAnalyzeWebpageTimeouts == TRUE

HasTimeouts(name) ==
    CASE name = "analyze_image" -> handleAnalyzeImageTimeouts
      [] name = "analyze_mobile_app_screenshot" -> handleAnalyzeMobileAppTimeouts
      [] OTHER -> handleAnalyzeWebpageTimeouts

\* apiTimeoutPromise is created after the type and size checks, right before
\* the Promise.race that handles its rejection (FALSE: not at the start)
apiTimerCreatedEarly == TRUE
apiTimerCreatedAtStart == FALSE

ProcessTimeoutMessage == "Image processing timed out after 30 seconds"
ApiTimeoutMessage == "Image analysis timed out after 2 minutes"
\* error.message.includes('timed out'), on the messages that occur here
includesTimedOut(message) ==
    message \in {ProcessTimeoutMessage, ApiTimeoutMessage}

\* A tool result: [set, isError, text]
NoResult == [set |-> FALSE, isError |-> FALSE, text |-> ""]
TextResult(text) == [set |-> TRUE, isError |-> FALSE, text |-> text]
ErrorResult(text) == [set |-> TRUE, isError |-> TRUE, text |-> text]

\* The catch block of a tool handler
handlerCatch(name, message) ==
    IF HasTimeouts(name) /\ includesTimedOut(message)
    THEN ErrorResult("Error: " \o message \o
           ". The image may be too large or the server is experiencing delays.")
    ELSE ErrorResult("Error: " \o message)

\* The prompt a handler passes to analyzeImage.  The webpage and mobile
\* prompts are built by string concatenation from focusArea and the toggles;
\* they are stood for by their first sentence (every built prompt is shorter
\* than 10000 characters, as these are).
promptOf(name, args) ==
    CASE name = "analyze_image" ->
             IF args.prompt.len # 0 THEN args.prompt ELSE DefaultPrompt
      [] name = "analyze_mobile_app_screenshot" ->
             Prompt("Analyze this mobile app screenshot and provide comprehensive insights about its design, user experience, and platform adherence.")
      [] OTHER ->
             Prompt("Analyze this webpage screenshot and provide detailed information about its structure, content, and design.")

\* The options a handler passes to analyzeImage
optionsOf(name, args) ==
    IF name = "analyze_image"
    THEN [format |-> args.format, maxTokens |-> args.maxTokens,
          temperature |-> args.temperature]
    ELSE [format |-> IF args.format # "" THEN args.format ELSE "json",
          maxTokens |-> IF args.maxTokens.set /\ args.maxTokens.n # 0
                        THEN args.maxTokens ELSE Num(4000),
          temperature |-> Unset]

\* result.error || 'Failed to analyze ...'
failedMessage(name) ==
    CASE name = "analyze_image" -> "Failed to analyze image"
      [] name = "analyze_mobile_app_screenshot" ->
             "Failed to analyze mobile app screenshot"
      [] OTHER -> "Failed to analyze webpage screenshot"

\* A handler from the settled analysis promise to its return
handlerAfterAnalysis(name, promise) ==
    IF promise.settled = "rejected" THEN handlerCatch(name, promise.reason)
    ELSE IF ~promise.value.success
    THEN handlerCatch(name, IF promise.value.error # "" THEN promise.value.error
                            ELSE failedMessage(name))
    ELSE TextResult(IF promise.value.analysis # "" THEN promise.value.analysis
                    ELSE "No analysis available")

\* The analyzeImage() call followed on its own: the tool whose handler makes
\* it and that tool call's format, maxTokens and temperature, its arguments, its position
\* ("idle", "called", "posted", "settled"), the request body it sent, the
\* POST's outcome and the promise it returned.
NoAdapter ==
    [ pc |-> "idle", imageData |-> [id |-> "", len |-> 0], mimeType |-> "",
      prompt |-> NoPrompt,
      options |-> [format |-> "", maxTokens |-> Unset, temperature |-> Unset],
      tool |-> "", args |-> [format |-> "", maxTokens |-> Unset, temperature |-> Unset],
      nPost |-> 0, body |-> NoBody, outcome |-> NoOutcome, promise |-> NoPromise ]

\* A tool-call slot.  pc: "free", "acquire" (awaiting processImage),
\* "analyze" (awaiting analyzeImage), "returned" (a result was returned) or
\* "rejected" (the handler threw).  acq and up follow the image acquisition
\* and the POST themselves, which go on after a timeout abandoned them.
\* timed says whether the handler invoked races its awaits against timers.
NoImage == [data |-> [id |-> "", len |-> 0], mimeType |-> "", size |-> 0]
NoArgs == [type |-> "", data |-> [id |-> "", lead |-> <<>>, len |-> 0,
                                  pad |-> 0, bad |-> 0,
                                  buf |-> [id |-> "", size |-> 0, sharp |-> "fail",
                                           head |-> <<>>, webp8 |-> FALSE]],
           mimeType |-> "", prompt |-> NoPrompt, format |-> "",
           maxTokens |-> Unset, temperature |-> Unset]
NoRequest == [name |-> "", hasArgs |-> FALSE, args |-> NoArgs]
NoCall ==
    [ pc |-> "free", req |-> NoRequest, hasImage |-> FALSE, image |-> NoImage,
      acq |-> "none", up |-> "none", nAcq |-> 0, nPost |-> 0, nAdapter |-> 0,
      timed |-> FALSE, ptimer |-> "none", atimer |-> "none", araced |-> FALSE,
      body |-> NoBody, result |-> NoResult, nResults |-> 0, thrown |-> "" ]

Return(call, result) ==
    [call EXCEPT !.pc = "returned", !.result = result,
                 !.nResults = call.nResults + 1]

\* The CallTool handler up to its first suspension: the arguments check, the
\* switch on the tool name, and the tool handler up to `await Promise.race`
\* (or `await processImage`).
StartCall(req) ==
    LET call == [NoCall EXCEPT !.req = req]
        timed == [call EXCEPT
                    !.timed = HasTimeouts(req.name),
                    !.ptimer = IF HasTimeouts(req.name) THEN "armed" ELSE "none",
                    !.atimer = IF HasTimeouts(req.name) /\ apiTimerCreatedAtStart
                               THEN "armed" ELSE "none"]
    IN IF ~req.hasArgs
       THEN [call EXCEPT !.pc = "rejected", !.thrown = "Arguments are required"]
       ELSE IF req.name \notin ToolNames
       THEN Return(call, ErrorResult("Error: Unknown tool: " \o req.name))
       ELSE IF req.args.type \notin {"base64", "file", "url"}
       THEN Return(timed, handlerCatch(req.name,
                "Unsupported image input type: " \o req.args.type))
       ELSE [timed EXCEPT !.pc = "acquire", !.acq = "inflight",
                          !.nAcq = IF req.args.type = "base64" THEN 0 ELSE 1]

\* The handler a register function of tools/*.ts installs for the tool own,
\* up to its first suspension: it throws, outside its try block, for another
\* tool's name and for missing arguments, and awaits processImage and
\* analyzeImage without timers.  (None of the messages its catch block meets
\* here includes 'timed out'.)
StartRegisteredAnyName(own, req) ==
    LET call == [NoCall EXCEPT !.req = req]
    IN IF ~req.hasArgs
       THEN [call EXCEPT !.pc = "rejected", !.thrown = "Arguments are required"]
       ELSE IF req.args.type \notin {"base64", "file", "url"}
       THEN Return(call, ErrorResult("Error: Unsupported image input type: "
                                       \o req.args.type))
       ELSE [call EXCEPT !.pc = "acquire", !.acq = "inflight",
                         !.nAcq = IF req.args.type = "base64" THEN 0 ELSE 1]
StartRegistered(own, req) ==
    LET call == [NoCall EXCEPT !.req = req]
    IN IF req.name # own
       THEN [call EXCEPT !.pc = "rejected",
                         !.thrown = "Unknown tool: " \o req.name]
       ELSE IF ~req.hasArgs
       THEN [call EXCEPT !.pc = "rejected", !.thrown = "Arguments are required"]
       ELSE IF req.args.type \notin {"base64", "file", "url"}
       THEN Return(call, ErrorResult("Error: Unsupported image input type: "
                                       \o req.args.type))
       ELSE [call EXCEPT !.pc = "acquire", !.acq = "inflight",
                         !.nAcq = IF req.args.type = "base64" THEN 0 ELSE 1]

\* imageInput and options are locals of the handler's own invocation: what
\* call c reads after an await is what call c wrote before it
MaxOf(S) == CHOOSE x \in S : \A y \in S : y <= x
sharedArgs(cs, c) ==
    cs[MaxOf({d \in DOMAIN cs : cs[d].pc # "free"})].req.args
ownArgs(cs, c) == cs[c].req.args

\* The handler's checks of the processed image, the type before the size:
\* the message of the error thrown, "" if none is
imageChecksSizeFirst(image, max) ==
    IF image.size > max
    THEN "Image size " \o ToString(image.size)
           \o " exceeds maximum allowed size " \o ToString(max)
    ELSE IF ~isValidImageType(image.mimeType)
    THEN "Unsupported image type: " \o image.mimeType
    ELSE ""
imageChecks(image, max) ==
    IF ~isValidImageType(image.mimeType)
    THEN "Unsupported image type: " \o image.mimeType
    ELSE IF image.size > max
    THEN "Image size " \o ToString(image.size)
           \o " exceeds maximum allowed size " \o ToString(max)
    ELSE ""

\* The tool handler from the settled processImage promise to its next
\* suspension or its return: the type check, the size check, the call of
\* analyzeImage up to its POST.
AfterAcquire(call, args, io, cfg) ==
    LET name == call.req.name
        r == processImage(args, io)
        max == maxImageSizeOf(cfg)
        armed == [call EXCEPT
                    !.hasImage = TRUE, !.image = r.image,
                    !.nAdapter = call.nAdapter + 1,
                    !.atimer = IF call.timed THEN "armed" ELSE "none",
                    !.araced = call.timed]
        request == analyzeImageRequest(r.image.data, r.image.mimeType,
                                       promptOf(name, args), optionsOf(name, args))
    IN IF ~r.ok THEN Return(call, handlerCatch(name, r.error))
       ELSE IF imageChecks(r.image, max) # ""
       THEN Return([call EXCEPT !.hasImage = TRUE, !.image = r.image],
                   handlerCatch(name, imageChecks(r.image, max)))
       ELSE IF ~request.ok
       THEN Return(armed,
                   handlerAfterAnalysis(name, analyzeImageCatch(request.error)))
       ELSE [armed EXCEPT !.pc = "analyze", !.up = "inflight",
                          !.nPost = call.nPost + 1, !.body = request.body]

\* analyzeImage issues its POST once: the catch block returns the failure,
\* whatever serverConfig.retryAttempts is
retryPostUpTo(cfg, nPost, outcome) == ~outcome.ok /\ nPost < cfg.retryAttempts
retryPost(cfg, nPost, outcome) == FALSE

\* analyzeImage and the tool handler from the settled POST to the return.
\* The handler has gone on without the analysis when its timer fired first.
AfterResponse(call, args, outcome, cfg) ==
    LET name == call.req.name
        promise == analyzeImageResponse(optionsOf(name, args), outcome)
        done == [call EXCEPT !.up = "done"]
    IN IF retryPost(cfg, call.nPost, outcome)
       THEN [call EXCEPT !.nPost = call.nPost + 1]
       ELSE IF call.pc = "analyze"
       THEN Return(done, handlerAfterAnalysis(name, promise))
       ELSE done

(***************************************************************************)
(* The environment: what the tool calls, the file system, the remote hosts *)
(* and the upstream API may do.                                            *)
(***************************************************************************)
Buf(id, size, sharp, head) ==
    [id |-> id, size |-> size, sharp |-> sharp, head |-> head, webp8 |-> FALSE]
NoBuf == Buf("", 0, "fail", <<>>)
Buffers ==
    { Buf("png16", 16, "png", <<137, 80, 78, 71>>),
      Buf("jpeg17", 17, "jpeg", <<255, 216, 255, 224>>),
      Buf("png10485761", 10485761, "png", <<137, 80, 78, 71>>),
      Buf("text16", 16, "fail", <<60, 104, 116, 109>>),
      Buf("text17", 17, "fail", <<60, 104, 116, 109>>),
      Buf("png20971520", 20971520, "png", <<137, 80, 78, 71>>) }

\* The outcome of readFile or axios.get: [ok, buffer, header, error]
IoOk(buffer, header) ==
    [ok |-> TRUE, buffer |-> buffer, header |-> header, error |-> ""]
IoFailed(message) ==
    [ok |-> FALSE, buffer |-> NoBuf, header |-> NoHeader, error |-> message]
NoIo == IoFailed("")

\* One call of the normalizer followed on its own: op is the method called,
\* input, io and buffer its arguments and what the file system, the remote
\* host and the header parser answer, result/sniffed/valid what it returns.
NoNormalizer ==
    [ pc |-> "idle", op |-> "",
      input |-> [type |-> "",
                 data |-> [id |-> "", lead |-> <<>>, len |-> 0, pad |-> 0,
                           bad |-> 0, buf |-> NoBuf],
                 mimeType |-> ""],
      io |-> NoIo, buffer |-> NoBuf, probe |-> "",
      result |-> Err(""), sniffed |-> "", valid |-> FALSE ]

FileOutcomes ==
    { IoOk(b, NoHeader) : b \in Buffers }
    \cup { IoFailed("ENOENT: no such file or directory") }
UrlOutcomes ==
    { IoOk(Buf("png16", 16, "png", <<137, 80, 78, 71>>), NoHeader),
      IoOk(Buf("png10485761", 10485761, "png", <<137, 80, 78, 71>>),
           Header("image/png", "")),
      IoOk(Buf("png16", 16, "png", <<137, 80, 78, 71>>), Header("text/html", "charset=utf-8")),
      IoFailed("timeout of 30000ms exceeded"),
      IoFailed("Request failed with status code 404") }
IoOutcomes(type) ==
    CASE type = "file" -> FileOutcomes
      [] type = "url"  -> UrlOutcomes
      [] OTHER         -> {NoIo}

\* data arguments
Path(id) == [id |-> id, lead |-> <<>>, len |-> Len(id), pad |-> 0, bad |-> 0,
             buf |-> NoBuf]
Payload(id, lead, len, pad, bad, buf) ==
    [id |-> id, lead |-> lead, len |-> len, pad |-> pad, bad |-> bad, buf |-> buf]
PngPrefix ==
    <<"d", "a", "t", "a", ":", "i", "m", "a", "g", "e", "/", "p", "n", "g",
      ";", "b", "a", "s", "e", "6", "4", ",">>

Args(type, data) == [NoArgs EXCEPT !.type = type, !.data = data]
Request(name, args) == [name |-> name, hasArgs |-> TRUE, args |-> args]

LongPrompt == [text |-> "(a prompt of 10001 characters)", len |-> 10001]

\* The tool calls a client makes under Spec
Requests ==
    { Request("analyze_image", Args("file", Path("/img/a"))),
      Request("analyze_image", Args("url", Path("https://host/a"))),
      Request("analyze_webpage_screenshot", Args("url", Path("https://host/a"))),
      Request("analyze_mobile_app_screenshot", Args("file", Path("/img/a"))) }
    \cup
    { Request("analyze_image",
              [Args("base64", Payload("iVBORw0K", <<>>, 24, 2, 0,
                                      Buf("png16", 16, "png", <<137, 80, 78, 71>>)))
                 EXCEPT !.mimeType = m, !.format = "json",
                        !.prompt = Prompt("What is in this image?"),
                        !.maxTokens = Num(9000), !.temperature = Num(0)])
          : m \in {"", "image/bmp"} }
    \cup
    { Request("analyze_image",
              [Args("base64", Payload("", PngPrefix, 0, 0, 0, NoBuf))
                 EXCEPT !.mimeType = "image/png"]),
      Request("analyze_image",
              [Args("file", Path("/img/a")) EXCEPT !.prompt = LongPrompt]),
      Request("analyze_mobile_app_screenshot",
              [Args("base64", Payload("!!!!", <<>>, 4, 0, 4, NoBuf))
                 EXCEPT !.format = "text"]),
      Request("analyze_image", Args("svg", Path("/img/a"))),
      Request("resize_image", Args("file", Path("/img/a"))),
      [name |-> "analyze_image", hasArgs |-> FALSE, args |-> NoArgs],
      [name |-> "analyze_mobile_app_screenshot", hasArgs |-> FALSE,
       args |-> NoArgs] }

\* What client.post('/chat/completions') may do
PostOutcomes ==
    { PostOk(Body(<<Choice(c)>>, u)) :
          c \in { <<"A cat on a sofa.">>, <<"{", "\"a\"", ":", "1", "}">>,
                  <<"{", " ", "\"a\"", " ", ":", " ", "1", " ", "}">>,
                  <<"42">>, <<>> },
          u \in {NoUsage, SomeUsage} }
    \cup
    { PostOk(Body(<<>>, NoUsage)),
      PostOk([Body(<<>>, NoUsage) EXCEPT !.hasChoices = FALSE]),
      PostOk(Body(<<[isNull |-> TRUE, content |-> <<>>]>>, NoUsage)),
      PostOk(NoBodyData),
      PostFailed(AxiosError("Request failed with status code 401", "401",
                            "Invalid API key", "")),
      PostFailed(AxiosError("Request failed with status code 429", "429",
                            "", "Rate limited")),
      PostFailed(AxiosError("Request failed with status code 400", "400",
                            "Bad image", "Bad request")),
      PostFailed(AxiosError("Request failed with status code 502", "502", "", "")),
      PostFailed(AxiosError("timeout of 120000ms exceeded", "undefined", "", "")),
      PostFailed(PlainError("Something went wrong")),
      PostFailed(OtherThrown) }

\* Those of them the tool calls of Spec meet
CallPostOutcomes ==
    { PostOk(Body(<<Choice(<<"A cat on a sofa.">>)>>, SomeUsage)),
      PostOk(Body(<<>>, NoUsage)),
      PostFailed(AxiosError("Request failed with status code 401", "401",
                            "Invalid API key", "")),
      PostFailed(AxiosError("timeout of 120000ms exceeded", "undefined", "", "")) }

(***************************************************************************)
(* Logging (src/utils/logger.ts) and the two output streams                *)
(***************************************************************************)
\* Logger.shouldLog, with the level the constructor reads: LOG_LEVEL, or
\* 'info' when it is unset or empty
shouldLog(LOG_LEVEL, level) ==
    LET levels == [debug |-> 0, info |-> 1, warn |-> 2, error |-> 3]
        logLevel == IF LOG_LEVEL = "" THEN "info" ELSE LOG_LEVEL
    IN levels[level] >= levels[logLevel]

\* What a step writes: one line for each of the levels it logs at that
\* shouldLog lets through, info with console.log (standard output), debug and
\* error with console.error, warn with console.warn (standard error); and,
\* when the step settles the call it is in (before, after: the call's record
\* at both ends of the step), the line its handler logs (error in the catch
\* block, info on success) and the JSON-RPC response the transport writes to
\* standard output.  transportOpen: server.connect() has returned.
Emit(levels, transportOpen, before, after) ==
    LET answered == before.pc # after.pc /\ after.pc \in {"returned", "rejected"}
        logged == levels \cup
                  (IF answered /\ after.pc = "returned"
                   THEN IF after.result.isError THEN {"error"} ELSE {"info"}
                   ELSE {})
    IN out' = out
          \cup { [stream |-> IF l = "info" THEN "stdout" ELSE "stderr",
                  kind |-> l, connected |-> transportOpen]
                   : l \in {x \in logged : shouldLog(env.logLevel, x)} }
          \cup (IF answered
                THEN {[stream |-> "stdout", kind |-> "protocol",
                       connected |-> transportOpen]}
                ELSE {})

(***************************************************************************)
(* Startup (src/index.ts, main)                                            *)
(***************************************************************************)
\* A failed testConnection() or validateModel() is logged, not thrown
diagnosticsAreGate == TRUE
diagnosticsAreFatal == FALSE

Exit(code) == proc' = "exited" /\ exitCode' = code

\* Config.getInstance(), before the try block: a throw rejects main(), the
\* unhandledRejection handler logs and calls process.exit(1)
MainConfig ==
    /\ proc = "running" /\ mainPc = "start"
    /\ IF validateEnvironment(env.apiKey)
       THEN /\ startupError' = "OPENROUTER_API_KEY environment variable is required"
            /\ mainPc' = "failed"
            /\ Exit(1)
       ELSE /\ mainPc' = "configured"
            /\ UNCHANGED <<startupError, proc, exitCode>>
    /\ Emit(IF validateEnvironment(env.apiKey) THEN {"error"} ELSE {"info"},
            FALSE, NoCall, NoCall)
    /\ UNCHANGED <<env, connected, connectionTest, modelValid, calls, adapter,
                   normalizer, handler>>

\* server.setRequestHandler(CallToolRequestSchema, h): the server keeps one
\* handler for each request method, the one set last
setRequestHandler(installed, h) == h

\* setRequestHandler, then await server.connect(transport)
MainConnect ==
    /\ proc = "running" /\ mainPc = "configured"
    /\ handler' = setRequestHandler(handler, "central")
    /\ connected' = TRUE
    /\ mainPc' = "connected"
    /\ Emit({"info"}, TRUE, NoCall, NoCall)
    /\ UNCHANGED <<env, proc, exitCode, startupError, connectionTest,
                   modelValid, calls, adapter, normalizer>>

\* await openRouterClient.testConnection()
MainTestConnection(ok) ==
    /\ proc = "running" /\ mainPc = "connected"
    /\ connectionTest' = IF ok THEN "ok" ELSE "failed"
    /\ IF ~ok /\ diagnosticsAreFatal
       THEN /\ startupError' = "Failed to connect to OpenRouter API"
            /\ mainPc' = "failed"
            /\ Exit(1)
       ELSE /\ mainPc' = "tested"
            /\ UNCHANGED <<startupError, proc, exitCode>>
    /\ Emit(IF ok THEN {"info"} ELSE {"info", "error"}, TRUE, NoCall, NoCall)
    /\ UNCHANGED <<env, connected, modelValid, calls, adapter, normalizer,
                   handler>>

\* await openRouterClient.validateModel(model)
MainValidateModel(ok) ==
    /\ proc = "running" /\ mainPc = "tested"
    /\ modelValid' = IF ok THEN "ok" ELSE "failed"
    /\ IF ~ok /\ diagnosticsAreFatal
       THEN /\ startupError' = "Invalid or unsupported model"
            /\ mainPc' = "failed"
            /\ Exit(1)
       ELSE /\ mainPc' = "done"
            /\ UNCHANGED <<startupError, proc, exitCode>>
    /\ Emit(IF ok THEN {"info"} ELSE {"info", "warn"}, TRUE, NoCall, NoCall)
    /\ UNCHANGED <<env, connected, connectionTest, calls, adapter, normalizer,
                   handler>>

(***************************************************************************)
(* Tool calls                                                              *)
(***************************************************************************)
server == <<env, mainPc, startupError, connected, connectionTest, modelValid,
            adapter, normalizer, handler>>

\* A CallTool request arrives on the connected transport
CallTool(c, req) ==
    /\ proc = "running" /\ connected /\ handler # "none"
    /\ calls[c].pc = "free"
    /\ calls' = [calls EXCEPT ![c] = IF handler = "central" THEN StartCall(req)
                                     ELSE StartRegistered(handler, req)]
    /\ Emit(IF calls'[c].pc = "rejected" THEN {} ELSE {"info"}, TRUE,
            calls[c], calls'[c])
    /\ UNCHANGED <<server, proc, exitCode>>

\* The file read, URL GET or base64 decoding of call c completes
AcquireDoneResumes(c, io) ==
    /\ proc = "running"
    /\ calls[c].acq = "inflight"
    /\ calls' = [calls EXCEPT ![c] =
          [AfterAcquire(calls[c], ownArgs(calls, c), io, getServerConfig(env))
             EXCEPT !.acq = "done"]]
    /\ Emit(IF calls[c].req.args.type = "base64" \/ io.ok THEN {"debug"}
            ELSE {"error"}, TRUE, calls[c], calls'[c])
    /\ UNCHANGED <<server, proc, exitCode>>
AcquireDone(c, io) ==
    /\ proc = "running"
    /\ calls[c].acq = "inflight"
    /\ calls' = [calls EXCEPT ![c] =
          IF calls[c].pc = "acquire"
          THEN [AfterAcquire(calls[c], ownArgs(calls, c), io,
                             getServerConfig(env))
                  EXCEPT !.acq = "done"]
          ELSE [calls[c] EXCEPT !.acq = "done"]]
    /\ Emit(IF calls[c].req.args.type = "base64" \/ io.ok THEN {"debug"}
            ELSE {"error"}, TRUE, calls[c], calls'[c])
    /\ UNCHANGED <<server, proc, exitCode>>

\* The 30 s timer of call c fires: processTimeoutPromise rejects
ProcessTimerFire(c) ==
    /\ proc = "running"
    /\ calls[c].ptimer = "armed"
    /\ calls' = [calls EXCEPT ![c] =
          IF calls[c].pc = "acquire"
          THEN Return([calls[c] EXCEPT !.ptimer = "fired"],
                      handlerCatch(calls[c].req.name, ProcessTimeoutMessage))
          ELSE [calls[c] EXCEPT !.ptimer = "fired"]]
    /\ Emit({}, TRUE, calls[c], calls'[c])
    /\ UNCHANGED <<server, proc, exitCode>>

\* The POST of call c settles
UpstreamRespond(c, outcome) ==
    /\ proc = "running"
    /\ calls[c].up = "inflight"
    /\ calls' = [calls EXCEPT ![c] =
                    AfterResponse(calls[c], ownArgs(calls, c), outcome,
                                  getServerConfig(env))]
    /\ Emit(IF outcome.ok THEN {"info"} ELSE {"error"}, TRUE,
            calls[c], calls'[c])
    /\ UNCHANGED <<server, proc, exitCode>>

\* The 120 s timer of call c fires: apiTimeoutPromise rejects.  A rejection
\* no Promise.race handles reaches the unhandledRejection handler, which
\* calls process.exit(1).
ApiTimerFire(c) ==
    /\ proc = "running"
    /\ calls[c].atimer = "armed" /\ calls[c].ptimer # "armed"
    /\ calls' = [calls EXCEPT ![c] =
          IF calls[c].pc = "analyze"
          THEN Return([calls[c] EXCEPT !.atimer = "fired"],
                      handlerCatch(calls[c].req.name, ApiTimeoutMessage))
          ELSE [calls[c] EXCEPT !.atimer = "fired"]]
    /\ IF calls[c].araced THEN UNCHANGED <<proc, exitCode>> ELSE Exit(1)
    /\ Emit(IF calls[c].araced THEN {} ELSE {"error"}, TRUE,
            calls[c], calls'[c])
    /\ UNCHANGED server

\* The client has its answer and nothing of call c is pending: the slot
\* serves the next call
Release(c) ==
    /\ proc = "running"
    /\ calls[c].pc \in {"returned", "rejected"}
    /\ calls[c].acq # "inflight" /\ calls[c].up # "inflight"
    /\ calls[c].ptimer # "armed" /\ calls[c].atimer # "armed"
    /\ calls' = [calls EXCEPT ![c] = NoCall]
    /\ UNCHANGED <<server, proc, exitCode, out>>

(***************************************************************************)
(* Specification                                                           *)
(***************************************************************************)
Environments ==
    { [apiKey |-> k, maxImageSize |-> Unset, retryAttempts |-> Unset,
        logLevel |-> ""]
          : k \in ApiKeyValues }
    \cup
    { [apiKey |-> "set", maxImageSize |-> Unset, retryAttempts |-> Unset,
        logLevel |-> ""],
      [apiKey |-> "set", maxImageSize |-> Num(0), retryAttempts |-> Num(5),
        logLevel |-> ""],
      [apiKey |-> "set", maxImageSize |-> Num(16), retryAttempts |-> Num(5),
        logLevel |-> ""],
      [apiKey |-> "set", maxImageSize |-> Num(20971520), retryAttempts |-> Unset,
        logLevel |-> ""],
      [apiKey |-> "set", maxImageSize |-> Unset, retryAttempts |-> Unset,
        logLevel |-> "debug"],
      [apiKey |-> "set", maxImageSize |-> Unset, retryAttempts |-> Unset,
        logLevel |-> "error"] }

Init ==
    /\ env \in Environments
    /\ mainPc = "start"
    /\ proc = "running"
    /\ exitCode = -1
    /\ startupError = ""
    /\ connected = FALSE
    /\ connectionTest = "none"
    /\ modelValid = "none"
    /\ calls = [c \in CallIds |-> NoCall]
    /\ adapter = NoAdapter
    /\ normalizer = NoNormalizer
    /\ handler = "none"
    /\ out = {}

Next ==
    \/ MainConfig
    \/ MainConnect
    \/ \E ok \in BOOLEAN : MainTestConnection(ok)
    \/ \E ok \in BOOLEAN : MainValidateModel(ok)
    \/ \E c \in DOMAIN calls, req \in Requests : CallTool(c, req)
    \/ \E c \in DOMAIN calls :
          \E io \in IoOutcomes(calls[c].req.args.type) : AcquireDone(c, io)
    \/ \E c \in DOMAIN calls : ProcessTimerFire(c)
    \/ \E c \in DOMAIN calls, outcome \in CallPostOutcomes :
          UpstreamRespond(c, outcome)
    \/ \E c \in DOMAIN calls : ApiTimerFire(c)
    \/ \E c \in DOMAIN calls : Release(c)

Spec == Init /\ [][Next]_vars

(***************************************************************************)
(* analyzeImage() on its own: every argument and every outcome of the POST *)
(***************************************************************************)
AdapterImageData ==
    { [id |-> "", len |-> 0], [id |-> "iVBORw0K", len |-> 24],
      [id |-> "(20971520 characters)", len |-> 20971520],
      [id |-> "(20971521 characters)", len |-> 20971521] }
AdapterPrompts ==
    { NoPrompt, Prompt("What is in this image?"),
      [text |-> "(a prompt of 10000 characters)", len |-> 10000], LongPrompt }
AdapterOptions ==
    [ format : {"", "text", "json"},
      maxTokens : {Unset, Num(0), Num(100), Num(8000), Num(9000)},
      temperature : {Unset, Num(0), Num(7), Num(20)} ]

AdapterValidate ==
    /\ adapter.pc = "called"
    /\ LET r == analyzeImageRequest(adapter.imageData, adapter.mimeType,
                                    adapter.prompt, adapter.options)
       IN adapter' =
            IF r.ok
            THEN [adapter EXCEPT !.pc = "posted", !.nPost = 1, !.body = r.body]
            ELSE [adapter EXCEPT !.pc = "settled",
                                 !.promise = analyzeImageCatch(r.error)]
    /\ Emit(IF adapter'.pc = "posted" THEN {"debug"} ELSE {"debug", "error"},
            connected, NoCall, NoCall)
    /\ UNCHANGED <<env, mainPc, proc, exitCode, startupError, connected,
                   connectionTest, modelValid, calls, normalizer, handler>>

AdapterSettle(outcome) ==
    /\ adapter.pc = "posted"
    /\ adapter' =
         IF retryPost(getServerConfig(env), adapter.nPost, outcome)
         THEN [adapter EXCEPT !.nPost = adapter.nPost + 1]
         ELSE [adapter EXCEPT
                 !.pc = "settled", !.outcome = outcome,
                 !.promise = analyzeImageResponse(adapter.options, outcome)]
    /\ Emit(IF adapter'.pc # "settled" THEN {}
            ELSE IF adapter'.promise.value.success THEN {"info"}
            ELSE {"error"},
            connected, NoCall, NoCall)
    /\ UNCHANGED <<env, mainPc, proc, exitCode, startupError, connected,
                   connectionTest, modelValid, calls, normalizer, handler>>

InitAdapter ==
    /\ env = [apiKey |-> "set", maxImageSize |-> Unset, retryAttempts |-> Unset,
        logLevel |-> ""]
    /\ mainPc = "start"
    /\ proc = "running"
    /\ exitCode = -1
    /\ startupError = ""
    /\ connected = FALSE
    /\ connectionTest = "none"
    /\ modelValid = "none"
    /\ calls = [c \in {} |-> NoCall]
    /\ normalizer = NoNormalizer
    /\ handler = "none"
    /\ out = {}
    /\ adapter \in { [NoAdapter EXCEPT !.pc = "called", !.imageData = d,
                                       !.mimeType = m, !.prompt = p,
                                       !.tool = t, !.args = a,
                                       !.options = optionsOf(t, a)]
                       : d \in AdapterImageData, m \in {"", "image/png"},
                         p \in AdapterPrompts, t \in ToolNames,
                         a \in AdapterOptions }

NextAdapter ==
    \/ AdapterValidate
    \/ \E outcome \in PostOutcomes : AdapterSettle(outcome)

SpecAdapter == InitAdapter /\ [][NextAdapter]_vars

(***************************************************************************)
(* analyzeImage() on the message contents an upstream can answer with:     *)
(* every sequence of up to MaxContentLen JSON lexemes, and some longer     *)
(* contents with white space, other literals, a repeated key and text.     *)
(***************************************************************************)
JsonLexemes == {"{", "}", "[", "]", ":", ",", "\"a\"", "1"}
JsonContents ==
    UNION { [1..n -> JsonLexemes] : n \in 0..MaxContentLen }
    \cup
    { <<"not json">>, <<"A cat on a sofa.">>, <<"null">>, <<"1.0">>, <<"\"\"">>,
      <<" ", "42", "\n">>, <<"1", " ", "1">>,
      <<"{", " ", "\"a\"", " ", ":", " ", "1", " ", "}">>,
      <<"[", "{", "\"a\"", ":", "1", "}", "]">>,
      <<"{", "\"a\"", ":", "1", ",", "\"b\"", ":", "[", "]", ",", "\"a\"", ":", "null", "}">>,
      <<"Here is the JSON:", "\n", "{", "\"a\"", ":", "1", "}">>,
      <<"{", "\"a\"", ":", "1", "}", " ", "Hope this helps!">> }

JsonRespond(content) ==
    AdapterSettle(PostOk(Body(<<Choice(content)>>, SomeUsage)))

InitJson ==
    /\ env = [apiKey |-> "set", maxImageSize |-> Unset, retryAttempts |-> Unset,
        logLevel |-> ""]
    /\ mainPc = "start"
    /\ proc = "running"
    /\ exitCode = -1
    /\ startupError = ""
    /\ connected = FALSE
    /\ connectionTest = "none"
    /\ modelValid = "none"
    /\ calls = [c \in {} |-> NoCall]
    /\ normalizer = NoNormalizer
    /\ handler = "none"
    /\ out = {}
    /\ adapter \in { [NoAdapter EXCEPT !.pc = "called",
                                       !.imageData = [id |-> "iVBORw0K", len |-> 24],
                                       !.mimeType = "image/png",
                                       !.options.format = f]
                       : f \in {"", "text", "json"} }

NextJson ==
    \/ AdapterValidate
    \/ adapter.pc = "posted" /\ \E content \in JsonContents : JsonRespond(content)

SpecJson == InitJson /\ [][NextJson]_vars

(***************************************************************************)
(* Concurrent tool calls with valid, distinct inputs: the server has       *)
(* started; call c asks about its own image with its own prompt; every     *)
(* read, fetch and upstream response completes before its timer fires, and *)
(* the upstream answers each request from that request's own content.      *)
(***************************************************************************)
ConcName(c) ==
    CASE c % 3 = 1 -> "analyze_image"
      [] c % 3 = 2 -> "analyze_webpage_screenshot"
      [] OTHER     -> "analyze_mobile_app_screenshot"
ConcType(c) ==
    CASE c % 4 = 1 -> "file"
      [] c % 4 = 2 -> "url"
      [] c % 4 = 3 -> "base64"
      [] OTHER     -> "file"
ConcContent(c) == "image " \o ToString(c)
ConcRequest(c) ==
    Request(ConcName(c),
      [Args(ConcType(c),
            IF ConcType(c) = "base64"
            THEN Payload(ConcContent(c), <<>>, 24, 2, 0,
                         Buf(ConcContent(c), 16, "png", <<137, 80, 78, 71>>))
            ELSE Path("/img/" \o ToString(c)))
         EXCEPT !.prompt = Prompt("Concurrent test " \o ToString(c)),
                !.format = "text"])
\* what the file system or the remote host holds at a call's path or URL
ConcIo(c) ==
    IF ConcType(c) = "base64" THEN NoIo
    ELSE IoOk(Buf(ConcContent(c), 16, "png", <<137, 80, 78, 71>>), NoHeader)
\* the upstream's answer to a request body
Echo(body) ==
    PostOk(Body(<<Choice(<<"analysis of " \o body.imageData.id \o " (" \o
                           body.mimeType \o ") for: " \o body.text>>)>>, SomeUsage))

InitConc ==
    /\ env = [apiKey |-> "set", maxImageSize |-> Unset, retryAttempts |-> Unset,
        logLevel |-> ""]
    /\ mainPc = "done"
    /\ proc = "running"
    /\ exitCode = -1
    /\ startupError = ""
    /\ connected = TRUE
    /\ connectionTest = "ok"
    /\ modelValid = "ok"
    /\ calls = [c \in 1..ConcCalls |-> NoCall]
    /\ adapter = NoAdapter
    /\ normalizer = NoNormalizer
    /\ handler = "central"
    /\ out = {}

NextConc ==
    \/ \E c \in DOMAIN calls : CallTool(c, ConcRequest(c))
    \/ \E c \in DOMAIN calls : AcquireDone(c, ConcIo(c))
    \/ \E c \in DOMAIN calls : UpstreamRespond(c, Echo(calls[c].body))
    \/ \E c \in DOMAIN calls : calls[c].pc # "acquire" /\ ProcessTimerFire(c)
    \/ \E c \in DOMAIN calls : calls[c].pc # "analyze" /\ ApiTimerFire(c)

SpecConc == InitConc /\ [][NextConc]_vars

(***************************************************************************)
(* The main() that installs the tools with their register functions: it    *)
(* tests the connection and validates the model first, both fatal, calls   *)
(* registerAnalyzeImageTool, registerAnalyzeWebpageTool and                *)
(* registerAnalyzeMobileAppTool on the one server, and connects.           *)
(***************************************************************************)
\* From testConnection() to the ListTools handler
RegisterMain(connectionOk, modelOk) ==
    /\ proc = "running" /\ mainPc = "configured"
    /\ connectionTest' = IF connectionOk THEN "ok" ELSE "failed"
    /\ modelValid' = IF ~connectionOk THEN "none"
                     ELSE IF modelOk THEN "ok" ELSE "failed"
    /\ IF connectionOk /\ modelOk
       THEN /\ handler' =
                 setRequestHandler(
                     setRequestHandler(
                         setRequestHandler(handler, "analyze_image"),
                         "analyze_webpage_screenshot"),
                     "analyze_mobile_app_screenshot")
            /\ mainPc' = "registered"
            /\ UNCHANGED <<startupError, proc, exitCode>>
       ELSE /\ startupError' = IF connectionOk THEN "Invalid or unsupported model"
                               ELSE "Failed to connect to OpenRouter API"
            /\ mainPc' = "failed"
            /\ Exit(1)
            /\ UNCHANGED handler
    /\ Emit(IF connectionOk /\ modelOk THEN {"info"} ELSE {"info", "error"},
            FALSE, NoCall, NoCall)
    /\ UNCHANGED <<env, connected, calls, adapter, normalizer>>

\* await server.connect(transport)
RegisterMainConnect ==
    /\ proc = "running" /\ mainPc = "registered"
    /\ connected' = TRUE
    /\ mainPc' = "done"
    /\ Emit({"info"}, TRUE, NoCall, NoCall)
    /\ UNCHANGED <<env, proc, exitCode, startupError, connectionTest,
                   modelValid, calls, adapter, normalizer, handler>>

NextRegister ==
    \/ MainConfig
    \/ \E connectionOk \in BOOLEAN, modelOk \in BOOLEAN :
          RegisterMain(connectionOk, modelOk)
    \/ RegisterMainConnect
    \/ \E c \in DOMAIN calls, req \in Requests : CallTool(c, req)
    \/ \E c \in DOMAIN calls :
          \E io \in IoOutcomes(calls[c].req.args.type) : AcquireDone(c, io)
    \/ \E c \in DOMAIN calls, outcome \in CallPostOutcomes :
          UpstreamRespond(c, outcome)
    \/ \E c \in DOMAIN calls : Release(c)

SpecRegister == Init /\ [][NextRegister]_vars

(***************************************************************************)
(* The normalizer on its own: processImage() on every kind of input,       *)
(* detectMimeType() on every kind of buffer, isValidImageType() on every   *)
(* kind of string                                                          *)
(***************************************************************************)
\* The first four bytes a buffer can start with, and what the header parser
\* makes of a buffer starting so when it does not throw
FormatOf(head) ==
    CASE SubSeq(head, 1, 3) = <<255, 216, 255>> -> "jpeg"
      [] head = <<137, 80, 78, 71>> -> "png"
      [] head = <<71, 73, 70, 56>>  -> "gif"
      [] head = <<82, 73, 70, 70>>  -> "webp"
      [] head = <<73, 73, 42, 0>>   -> "tiff"
      [] OTHER -> "fail"
NormBuffers ==
  LET Heads ==
        { <<255, 216, 255, 224>>, <<255, 216, 255, 219>>, <<137, 80, 78, 71>>,
          <<71, 73, 70, 56>>, <<82, 73, 70, 70>>, <<73, 73, 42, 0>>,
          <<137, 80, 78, 0>>, <<255, 216, 0, 0>>, <<60, 104, 116, 109>> }
      BufSizes == {0, 1, 3, 4, 12, 13, 16}
      BufName(size, sharp, head, webp8) ==
        sharp \o ToString(size) \o ToString(head) \o (IF webp8 THEN "WEBP" ELSE "")
  IN
    { [id |-> BufName(n, sharp, SubSeq(h, 1, IF n < 4 THEN n ELSE 4), w),
       size |-> n, sharp |-> sharp,
       head |-> SubSeq(h, 1, IF n < 4 THEN n ELSE 4), webp8 |-> w]
        : <<n, h, sharp, w>> \in
            { x \in BufSizes \X Heads \X {"fail", "jpeg", "png", "gif", "webp", "tiff"}
                             \X BOOLEAN :
                /\ x[3] \in {"fail", FormatOf(x[2])}
                /\ x[3] # "fail" => x[1] >= 12
                /\ x[4] => x[1] >= 12 /\ x[2] = <<82, 73, 70, 70>>
                /\ x[3] = "webp" => x[4] /\ x[1] > 12 } }

\* The leading characters of a base64 input: none, a data-URL prefix the
\* regular expression matches, and four it does not match (an upper-case
\* subtype, svg+xml, no subtype, text/plain)
JpegPrefix ==
    <<"d", "a", "t", "a", ":", "i", "m", "a", "g", "e", "/", "j", "p", "e",
      "g", ";", "b", "a", "s", "e", "6", "4", ",">>
Leads ==
  { <<>>, PngPrefix, JpegPrefix,
    <<"d", "a", "t", "a", ":", "i", "m", "a", "g", "e", "/", "P", "N", "G",
      ";", "b", "a", "s", "e", "6", "4", ",">>,
    <<"d", "a", "t", "a", ":", "i", "m", "a", "g", "e", "/", "s", "v", "g",
      "+", "x", "m", "l", ";", "b", "a", "s", "e", "6", "4", ",">>,
    <<"d", "a", "t", "a", ":", "i", "m", "a", "g", "e", "/", ";", "b", "a",
      "s", "e", "6", "4", ",">>,
    <<"d", "a", "t", "a", ":", "t", "e", "x", "t", "/", "p", "l", "a", "i",
      "n", ";", "b", "a", "s", "e", "6", "4", ",">> }

\* The base64 text of a buffer: padded as toString('base64') writes it or
\* with the padding left off, and with bad characters outside the alphabet
\* scattered in it
Payloads ==
  LET PadOf(size) == (3 - (size % 3)) % 3
  IN
    { Payload(b.id \o (IF padded THEN "" ELSE "-unpadded") \o
                (IF bad = 0 THEN "" ELSE "-bad" \o ToString(bad)),
              lead,
              Base64Len(b.size) - (IF padded THEN 0 ELSE PadOf(b.size)) + bad,
              IF padded THEN PadOf(b.size) ELSE 0, bad, b)
        : b \in NormBuffers, lead \in Leads, padded \in BOOLEAN, bad \in {0, 1, 4} }
NormalizerInputs ==
    { [type |-> "base64", data |-> d, mimeType |-> m]
        : d \in Payloads,
          m \in {"", "image/png", "image/jpeg", "image/bmp", "text/html"} }
    \cup { [type |-> t, data |-> Path(p), mimeType |-> m]
             : t \in {"file", "url", "ftp"},
               p \in {"/tmp/shot.png", "https://example.com/shot.png"},
               m \in {"", "image/bmp"} }
NormalizerIo(input) ==
    CASE input.type = "file" ->
           { IoOk(b, NoHeader) : b \in NormBuffers }
           \cup { IoFailed("ENOENT: no such file or directory") }
      [] input.type = "url" ->
           { IoOk(b, h)
               : b \in NormBuffers,
                 h \in { NoHeader, Header("image/png", ""), Header("image/jpeg", ""),
                         Header("text/html", "charset=utf-8"),
                         Header("image/svg+xml", ""),
                         Header("application/octet-stream", ""),
                         Header("", "charset=utf-8") } }
           \cup { IoFailed("Request failed with status code 404"),
                  IoFailed("timeout of 30000ms exceeded") }
      [] OTHER -> {NoIo}
MimeProbes ==
    SupportedTypes \cup
    { "", "image/jpg", "IMAGE/PNG", "image/png ", "image/bmp", "image/svg+xml",
      "image/png;charset=utf-8", "application/octet-stream", "application/pdf",
      "text/plain", "video/mp4", "image/*", "png" }

\* processImage(input) is called and settles
ProcessImage(input, io) ==
    /\ normalizer.pc = "idle"
    /\ normalizer' = [normalizer EXCEPT !.pc = "done", !.op = "processImage",
                                        !.input = input, !.io = io,
                                        !.result = processImage(input, io)]
    /\ Emit(IF normalizer'.result.ok THEN {"debug"} ELSE {"error"},
            connected, NoCall, NoCall)
    /\ UNCHANGED <<env, mainPc, proc, exitCode, startupError, connected,
                   connectionTest, modelValid, calls, adapter, handler>>

\* detectMimeType(buffer) is called and settles
DetectMimeType(buffer) ==
    /\ normalizer.pc = "idle"
    /\ normalizer' = [normalizer EXCEPT !.pc = "done", !.op = "detectMimeType",
                                        !.buffer = buffer,
                                        !.sniffed = detectMimeType(buffer)]
    /\ UNCHANGED <<env, mainPc, proc, exitCode, startupError, connected,
                   connectionTest, modelValid, calls, adapter,
                   handler, out>>

\* isValidImageType(mimeType) is called and returns
IsValidImageType(mimeType) ==
    /\ normalizer.pc = "idle"
    /\ normalizer' = [normalizer EXCEPT !.pc = "done", !.op = "isValidImageType",
                                        !.probe = mimeType,
                                        !.valid = isValidImageType(mimeType)]
    /\ UNCHANGED <<env, mainPc, proc, exitCode, startupError, connected,
                   connectionTest, modelValid, calls, adapter,
                   handler, out>>

\* The caller takes the result; the processor is a singleton and serves the
\* next call
NormalizerReturn ==
    /\ normalizer.pc = "done"
    /\ normalizer' = [normalizer EXCEPT !.pc = "returned"]
    /\ UNCHANGED <<env, mainPc, proc, exitCode, startupError, connected,
                   connectionTest, modelValid, calls, adapter,
                   handler, out>>

InitNormalizer ==
    /\ env = [apiKey |-> "set", maxImageSize |-> Unset, retryAttempts |-> Unset,
        logLevel |-> ""]
    /\ mainPc = "start"
    /\ proc = "running"
    /\ exitCode = -1
    /\ startupError = ""
    /\ connected = FALSE
    /\ connectionTest = "none"
    /\ modelValid = "none"
    /\ calls = [c \in {} |-> NoCall]
    /\ adapter = NoAdapter
    /\ normalizer = NoNormalizer
    /\ handler = "none"
    /\ out = {}

NextNormalizer ==
    \/ normalizer.pc = "idle" /\
         \E input \in NormalizerInputs :
             \E io \in NormalizerIo(input) : ProcessImage(input, io)
    \/ normalizer.pc = "idle" /\ \E buffer \in NormBuffers : DetectMimeType(buffer)
    \/ normalizer.pc = "idle" /\ \E m \in MimeProbes : IsValidImageType(m)
    \/ NormalizerReturn

SpecNormalizer == InitNormalizer /\ [][NextNormalizer]_vars

(***************************************************************************)
(* Claims                                                                  *)
(***************************************************************************)
Started == {c \in DOMAIN calls : calls[c].pc # "free"}

\* The ceiling MAX_IMAGE_SIZE configures: its value, 10485760 when absent
C1_ConfiguredCeiling ==
    IF env.maxImageSize.set THEN env.maxImageSize.n ELSE 10485760
\* The ceiling in effect: 10485760 also when MAX_IMAGE_SIZE is 0
C1_EffectiveCeiling ==
    IF env.maxImageSize.set /\ env.maxImageSize.n # 0
    THEN env.maxImageSize.n ELSE 10485760
\* Network requests of call c: the URL GET of its image and the upstream POST
C1_NetworkCalls(c) ==
    (IF calls[c].req.args.type = "url" THEN calls[c].nAcq ELSE 0) + calls[c].nPost

\* C1, as claimed: a normalized image larger than the configured ceiling is
\* rejected with an error-flagged result before any network call is
\* attempted, and analyzeImage is never invoked for the call.
C1_Original ==
    \A c \in Started :
        calls[c].hasImage /\ calls[c].image.size > C1_ConfiguredCeiling
        => /\ calls[c].pc = "returned" /\ calls[c].result.isError
           /\ calls[c].nAdapter = 0
           /\ C1_NetworkCalls(c) = 0

\* C1, amended: a normalized image larger than the ceiling in effect
\* (MAX_IMAGE_SIZE, or 10485760 when it is absent or 0) is rejected with an
\* error-flagged result; analyzeImage is never invoked and no upstream POST is
\* issued for the call (the GET of a url input has already been made).
C1_SizeRejectedBeforeAdapter ==
    \A c \in Started :
        calls[c].hasImage /\ calls[c].image.size > C1_EffectiveCeiling
        => /\ calls[c].pc = "returned" /\ calls[c].result.isError
           /\ calls[c].nAdapter = 0
           /\ calls[c].nPost = 0

\* An image of a supported type, read from a file, one byte over the
\* configured ceiling of 16, was rejected for its size.
C1_Witness ==
    \E c \in Started :
        /\ calls[c].hasImage /\ calls[c].req.args.type = "file"
        /\ calls[c].image.mimeType \in SupportedTypes
        /\ env.maxImageSize = Num(16) /\ calls[c].image.size = 17
        /\ calls[c].pc = "returned" /\ calls[c].result.isError

\* C2, as claimed: every CallTool request completes by returning a text
\* payload or an error payload with isError = true; the handler never throws.
C2_Claim ==
    \A c \in Started :
        /\ calls[c].pc # "rejected"
        /\ calls[c].pc = "returned" => calls[c].result.set

\* The response analyzeImage treats as an analysis: a first choice with
\* non-empty message content
C3_GoodResponse ==
    /\ adapter.nPost = 1 /\ adapter.outcome.ok
    /\ ~adapter.outcome.data.isNull /\ adapter.outcome.data.hasChoices
    /\ Len(adapter.outcome.data.choices) > 0
    /\ ~adapter.outcome.data.choices[1].isNull
    /\ adapter.outcome.data.choices[1].content # <<>>

\* C3: analyzeImage() never rejects; it resolves to a result, with
\* success = false and an error message on every failure path (a failed
\* validation, an HTTP or network error, a malformed response, a thrown
\* value that is no Error).
C3_NeverThrows ==
    adapter.pc = "settled"
    => /\ adapter.promise.settled = "resolved"
       /\ IF C3_GoodResponse
          THEN adapter.promise.value.success
          ELSE /\ ~adapter.promise.value.success
               /\ adapter.promise.value.error # ""

\* The POST rejected with a value that is no Error and analyzeImage resolved
\* to a failure.
C3_Witness ==
    /\ adapter.pc = "settled" /\ adapter.nPost = 1
    /\ ~adapter.outcome.ok /\ adapter.outcome.error.kind = "other"
    /\ adapter.promise.settled = "resolved"
    /\ adapter.promise.value.error = "Unknown error occurred"

\* C4: once the server has started no tool call ends the process; the only
\* exception that leaves a handler is the arguments check, raised before any
\* acquisition or analysis began; a timer may fire after its call returned.
C4_NoExitFromToolCalls ==
    /\ connected => proc = "running"
    /\ \A c \in Started :
          calls[c].pc = "rejected"
          => /\ calls[c].thrown = "Arguments are required"
             /\ calls[c].acq = "none" /\ calls[c].up = "none"
             /\ calls[c].ptimer = "none" /\ calls[c].atimer = "none"

\* The 120 s timer of a call fired after the call had returned its analysis,
\* and the process runs on.
C4_Witness ==
    /\ proc = "running"
    /\ \E c \in Started :
          /\ calls[c].pc = "returned" /\ ~calls[c].result.isError
          /\ calls[c].up = "done" /\ calls[c].atimer = "fired"

\* C5, as claimed: every tool invocation is capped by a one-shot timer, while
\* it awaits the image and while it awaits the analysis, and a call whose
\* acquisition timed out never invokes analyzeImage.
C5_Claim ==
    \A c \in Started :
        /\ calls[c].pc = "acquire" => calls[c].ptimer = "armed"
        /\ calls[c].pc = "analyze" => calls[c].atimer = "armed"
        /\ calls[c].result = handlerCatch(calls[c].req.name, ProcessTimeoutMessage)
           => calls[c].nAdapter = 0

C7_Prompt(c) ==
    CASE c % 3 = 1 -> "Concurrent test " \o ToString(c)
      [] c % 3 = 2 -> "Analyze this webpage screenshot and provide detailed information about its structure, content, and design."
      [] OTHER     -> "Analyze this mobile app screenshot and provide comprehensive insights about its design, user experience, and platform adherence."
\* The analysis of call c's own image under call c's own prompt
C7_Own(c) ==
    "analysis of image " \o ToString(c) \o " (image/png) for: " \o C7_Prompt(c)

\* C7: with ConcCalls valid calls on distinct inputs in flight together, each
\* call posts its own image and prompt and returns the analysis of its own
\* input, in whatever order acquisitions and responses complete.
C7_NoCrossContamination ==
    \A c \in Started :
        /\ calls[c].hasImage => calls[c].image.data.id = "image " \o ToString(c)
        /\ calls[c].nPost > 0
           => /\ calls[c].body.imageData.id = "image " \o ToString(c)
              /\ calls[c].body.text = C7_Prompt(c)
        /\ calls[c].pc = "returned"
           => calls[c].result = [set |-> TRUE, isError |-> FALSE, text |-> C7_Own(c)]

\* Five calls were in flight together: four still are, one of them awaiting
\* its image and one its analysis, and the fifth has returned its own result.
C7_Witness ==
    /\ Cardinality({c \in Started : calls[c].pc \in {"acquire", "analyze"}}) >= 4
    /\ \E c \in Started : calls[c].pc = "acquire"
    /\ \E c \in Started : calls[c].pc = "analyze"
    /\ \E c \in Started :
          calls[c].pc = "returned" /\ calls[c].result.text = C7_Own(c)

\* C8: the connection test and the model validation run only once the
\* transport is connected, and a failure of either leaves the server
\* connected and the process running.
C8_DiagnosticsNoGate ==
    /\ connectionTest # "none" \/ modelValid # "none" => connected
    /\ connectionTest = "failed" \/ modelValid = "failed"
       => connected /\ proc = "running"

\* Both diagnostics failed and a tool call returned an analysis.
C8_Witness ==
    /\ connectionTest = "failed" /\ modelValid = "failed"
    /\ proc = "running"
    /\ \E c \in Started : calls[c].pc = "returned" /\ ~calls[c].result.isError

\* C9: with OPENROUTER_API_KEY absent or empty, startup fails with
\* 'OPENROUTER_API_KEY environment variable is required', the process exits
\* with a non-zero code, the transport is never connected and no tool call is
\* served; the process exits at startup for no other reason.
C9_MissingKeyFatal ==
    /\ env.apiKey # "set"
       => /\ ~connected
          /\ connectionTest = "none" /\ modelValid = "none"
          /\ Started = {}
          /\ mainPc # "start"
             => /\ proc = "exited" /\ exitCode # 0
                /\ startupError = "OPENROUTER_API_KEY environment variable is required"
    /\ proc = "exited" => env.apiKey # "set"

\* Startup with an empty OPENROUTER_API_KEY ended the process with code 1.
C9_Witness ==
    /\ env.apiKey = "empty"
    /\ proc = "exited" /\ exitCode = 1
    /\ startupError = "OPENROUTER_API_KEY environment variable is required"

\* The POST was answered with a body whose choices are missing or empty
C10_NoChoices ==
    /\ adapter.pc = "settled" /\ adapter.nPost = 1 /\ adapter.outcome.ok
    /\ ~adapter.outcome.data.isNull
    /\ \/ ~adapter.outcome.data.hasChoices
       \/ Len(adapter.outcome.data.choices) = 0
\* The POST was answered with a first choice that has no message content
C10_NoContent ==
    /\ adapter.pc = "settled" /\ adapter.nPost = 1 /\ adapter.outcome.ok
    /\ ~adapter.outcome.data.isNull /\ adapter.outcome.data.hasChoices
    /\ Len(adapter.outcome.data.choices) > 0
    /\ ~adapter.outcome.data.choices[1].isNull
    /\ adapter.outcome.data.choices[1].content = <<>>

\* C10: a response whose choices are missing or empty makes analyzeImage
\* fail with exactly 'No response from model'; a first choice without
\* message content makes it fail with exactly 'Empty response from model'.
C10_ResponseMessages ==
    /\ C10_NoChoices
       => /\ adapter.promise.settled = "resolved"
          /\ ~adapter.promise.value.success
          /\ adapter.promise.value.error = "No response from model"
    /\ C10_NoContent
       => /\ adapter.promise.settled = "resolved"
          /\ ~adapter.promise.value.success
          /\ adapter.promise.value.error = "Empty response from model"

\* A response with an empty choices array failed with 'No response from
\* model', or one with an empty first content with 'Empty response from model'.
C10_Witness ==
    \/ /\ C10_NoChoices /\ adapter.outcome.data.hasChoices
       /\ adapter.promise.value.error = "No response from model"
    \/ /\ C10_NoContent
       /\ adapter.promise.value.error = "Empty response from model"

\* The content analyzeImage was answered with, JSON output having been asked
C11_JsonAnswered ==
    /\ adapter.pc = "settled" /\ adapter.nPost = 1
    /\ adapter.options.format = "json"
    /\ adapter.outcome.ok /\ ~adapter.outcome.data.isNull
    /\ adapter.outcome.data.hasChoices
    /\ Len(adapter.outcome.data.choices) > 0
    /\ ~adapter.outcome.data.choices[1].isNull
C11_Content == adapter.outcome.data.choices[1].content
C11_Pairs ==
    { << <<"{", "\"a\"", ":", "1", "}">>,
         JObject(<<[k |-> "a", v |-> JNumber("1")]>>),
         "{\n  \"a\": 1\n}" >>,
      << <<"{", " ", "\"a\"", " ", ":", " ", "1", " ", "}">>,
         JObject(<<[k |-> "a", v |-> JNumber("1")]>>),
         "{\n  \"a\": 1\n}" >>,
      << <<"[", "1", ",", "\"a\"", "]">>,
         JArray(<<[k |-> "", v |-> JNumber("1")], [k |-> "", v |-> JString("a")]>>),
         "[\n  1,\n  \"a\"\n]" >>,
      << <<"[", "{", "\"a\"", ":", "1", "}", "]">>,
         JArray(<<[k |-> "", v |-> JObject(<<[k |-> "a", v |-> JNumber("1")]>>)]>>),
         "[\n  {\n    \"a\": 1\n  }\n]" >>,
      << <<"[", "[", "]", "]">>,
         JArray(<<[k |-> "", v |-> JArray(<<>>)]>>),
         "[\n  []\n]" >>,
      << <<"1.0">>, JNumber("1"), "1" >>,
      << <<"null">>, JNull, "null" >>,
      << <<"{", "}">>, JObject(<<>>), "{}" >> }

\* C11: JSON output requested and the content parseable as JSON: the result
\* is a success whose structuredData is the parsed value and whose analysis is
\* that value printed with a 2-space indent; so for '{"a":1}', '[1,"a"]' and
\* the other contents of C11_Pairs, with the values and texts written out.
C11_JsonParsed ==
    C11_JsonAnswered =>
        /\ JSONParse(C11_Content).ok
           => /\ adapter.promise.settled = "resolved"
              /\ adapter.promise.value.success
              /\ adapter.promise.value.structuredData =
                   [tag |-> "parsed", value |-> JSONParse(C11_Content).value,
                    text |-> ""]
              /\ adapter.promise.value.analysis =
                   JSONStringify(JSONParse(C11_Content).value)
        /\ \A p \in C11_Pairs :
              C11_Content = p[1]
              => /\ adapter.promise.value.success
                 /\ adapter.promise.value.structuredData.tag = "parsed"
                 /\ adapter.promise.value.structuredData.value = p[2]
                 /\ adapter.promise.value.analysis = p[3]

\* '{"a":1}' was answered to a JSON request and came back parsed and printed.
C11_Witness ==
    /\ C11_JsonAnswered
    /\ C11_Content = <<"{", "\"a\"", ":", "1", "}">>
    /\ adapter.promise.value.success
    /\ adapter.promise.value.analysis = "{\n  \"a\": 1\n}"

\* C12: JSON output requested and the content a non-empty string that is no
\* JSON: the result is a success, never a failure or a rejection, whose
\* analysis is the raw content and whose structuredData is {analysis: content};
\* so for 'not json', a truncated object and JSON followed by text.
C12_JsonFallback ==
    C11_JsonAnswered /\ C11_Content # <<>> =>
        /\ ~JSONParse(C11_Content).ok
           => /\ adapter.promise.settled = "resolved"
              /\ adapter.promise.value.success
              /\ adapter.promise.value.analysis = Text(C11_Content)
              /\ adapter.promise.value.structuredData =
                   [tag |-> "analysis", value |-> JNull, text |-> Text(C11_Content)]
        /\ \A p \in { << <<"not json">>, "not json" >>,
                      << <<"{", "\"a\"", ":", "1">>, "{\"a\":1" >>,
                      << <<"1", " ", "1">>, "1 1" >>,
                      << <<"[", "1", ",", "]">>, "[1,]" >>,
                      << <<"{", "\"a\"", ":", "1", "}", " ", "Hope this helps!">>,
                         "{\"a\":1} Hope this helps!" >> } :
              C11_Content = p[1]
              => /\ adapter.promise.value.success
                 /\ adapter.promise.value.structuredData.tag = "analysis"
                 /\ adapter.promise.value.structuredData.text = p[2]
                 /\ adapter.promise.value.analysis = p[2]

\* 'not json' was answered to a JSON request and came back as text.
C12_Witness ==
    /\ C11_JsonAnswered
    /\ C11_Content = <<"not json">>
    /\ adapter.promise.settled = "resolved"
    /\ adapter.promise.value.success
    /\ adapter.promise.value.analysis = "not json"
    /\ adapter.promise.value.structuredData.text = "not json"

\* analyzeImage has sent its request body
C13_Sent == adapter.nPost = 1

\* C13, as claimed: max_tokens of the request sent is 4000 when the tool
\* call gave no maxTokens and min(requested, 8000) otherwise, never above 8000.
C13_Original ==
    C13_Sent =>
        /\ adapter.body.max_tokens <= 8000
        /\ adapter.body.max_tokens =
             IF ~adapter.args.maxTokens.set THEN 4000
             ELSE IF adapter.args.maxTokens.n < 8000
                  THEN adapter.args.maxTokens.n ELSE 8000

\* C13, amended: max_tokens of the request sent is 4000 when the tool call
\* gave no maxTokens or gave 0, and min(requested, 8000) otherwise; it is
\* never above 8000, for each of the three tools.
C13_MaxTokensClamped ==
    C13_Sent =>
        /\ adapter.body.max_tokens <= 8000
        /\ adapter.body.max_tokens =
             IF ~adapter.args.maxTokens.set \/ adapter.args.maxTokens.n = 0
             THEN 4000
             ELSE IF adapter.args.maxTokens.n < 8000
                  THEN adapter.args.maxTokens.n ELSE 8000

\* The mobile tool was asked for 9000 tokens and 8000 were requested upstream.
C13_Witness ==
    /\ C13_Sent
    /\ adapter.tool = "analyze_mobile_app_screenshot"
    /\ adapter.args.maxTokens = Num(9000)
    /\ adapter.body.max_tokens = 8000

\* The arguments of analyzeImage fail one of its four checks
C14_Invalid ==
    \/ adapter.imageData.len = 0
    \/ adapter.mimeType = ""
    \/ adapter.imageData.len > 20971520
    \/ (IF adapter.prompt.len = 0 THEN Len(DefaultPromptText)
        ELSE adapter.prompt.len) > 10000

\* C14: analyzeImage resolves to a failure without a POST when the image
\* payload is empty, the MIME type is missing, the payload is longer than
\* 20*1024*1024 characters or the effective prompt is longer than 10000
\* characters; otherwise it issues exactly one POST.
C14_PreflightValidation ==
    adapter.pc # "called" =>
        IF C14_Invalid
        THEN /\ adapter.pc = "settled" /\ adapter.nPost = 0
             /\ adapter.promise.settled = "resolved"
             /\ ~adapter.promise.value.success
             /\ adapter.promise.value.error # ""
        ELSE adapter.nPost = 1

\* A payload of 20971521 characters, valid otherwise, failed without a POST.
C14_Witness ==
    /\ adapter.pc = "settled" /\ adapter.nPost = 0
    /\ adapter.imageData.len = 20971521
    /\ adapter.mimeType = "image/png" /\ adapter.prompt.len <= 10000
    /\ adapter.promise.value.error =
         "Image data too large: 20971521 characters. Maximum allowed is 20MB."

\* The POST of analyzeImage was rejected
C15_PostRejected ==
    adapter.pc = "settled" /\ adapter.nPost = 1 /\ ~adapter.outcome.ok
\* The rejections met, [kind, status, body error.message, body message, raw
\* message], and the failure message each must give
C15_Table ==
    { << "AxiosError", "400", "Bad image", "Bad request",
         "Request failed with status code 400",
         "OpenRouter API Error: Bad image" >>,
      << "AxiosError", "401", "Invalid API key", "",
         "Request failed with status code 401",
         "OpenRouter API Error: Invalid API key" >>,
      << "AxiosError", "429", "", "Rate limited",
         "Request failed with status code 429",
         "OpenRouter API Error: Rate limited" >>,
      << "AxiosError", "502", "", "", "Request failed with status code 502",
         "HTTP 502: Request failed with status code 502" >>,
      << "AxiosError", "undefined", "", "", "timeout of 120000ms exceeded",
         "HTTP undefined: timeout of 120000ms exceeded" >>,
      << "Error", "undefined", "", "", "Something went wrong",
         "Something went wrong" >>,
      << "other", "undefined", "", "", "", "Unknown error occurred" >> }

\* C15: the failure message of a rejected POST is, for a transport error,
\* made from the body's nested error.message if there is one, else from the
\* body's message, else 'HTTP <status>: <raw message>'; for another Error its
\* message verbatim; for any other value 'Unknown error occurred'.
C15_MessagePrecedence ==
    C15_PostRejected =>
        /\ adapter.promise.settled = "resolved"
        /\ ~adapter.promise.value.success
        /\ \E r \in C15_Table :
              /\ adapter.outcome.error =
                   [kind |-> r[1], status |-> r[2], bodyError |-> r[3],
                    bodyMessage |-> r[4], message |-> r[5]]
              /\ adapter.promise.value.error = r[6]

\* A 400 whose body has both error.message and message failed with the nested
\* one.
C15_Witness ==
    /\ C15_PostRejected
    /\ adapter.outcome.error.bodyError = "Bad image"
    /\ adapter.outcome.error.bodyMessage = "Bad request"
    /\ adapter.promise.value.error = "OpenRouter API Error: Bad image"

\* C16 as stated: on a buffer whose header parsing fails the sniffer answers
\* image/jpeg if the buffer starts with FF D8 FF, image/png if it starts with
\* 89 50 4E 47, image/gif if it starts with 47 49 46 38, and
\* application/octet-stream if it is shorter than 4 bytes or matches no
\* signature.
C16_Sniffed == normalizer.op = "detectMimeType" /\ normalizer.buffer.sharp = "fail"
C16_StartsWith(sig) ==
    /\ Len(normalizer.buffer.head) >= Len(sig)
    /\ SubSeq(normalizer.buffer.head, 1, Len(sig)) = sig
C16_Webp ==
    /\ C16_StartsWith(<<82, 73, 70, 70>>)
    /\ normalizer.buffer.size > 12
    /\ normalizer.buffer.webp8
C16_NoSignature ==
    /\ ~C16_StartsWith(<<255, 216, 255>>)
    /\ ~C16_StartsWith(<<137, 80, 78, 71>>)
    /\ ~C16_StartsWith(<<71, 73, 70, 56>>)
    /\ ~C16_Webp
C20_Called == normalizer.pc = "idle" /\ normalizer'.op = "isValidImageType"
C20_ExactMembership ==
    [][ C20_Called =>
          /\ normalizer'.valid =
               (normalizer'.probe \in {"image/jpeg", "image/png", "image/webp",
                                       "image/gif"})
          /\ normalizer' = [normalizer EXCEPT !.pc = "done",
                                              !.op = "isValidImageType",
                                              !.probe = normalizer'.probe,
                                              !.valid = normalizer'.valid]
          /\ UNCHANGED <<env, mainPc, proc, exitCode, startupError, connected,
                         connectionTest, modelValid, calls, adapter,
                   handler, out>> ]_vars
\* the empty string and a supported type in another case have been refused
C20_Witness ==
    /\ normalizer.op = "isValidImageType"
    /\ normalizer.probe \in {"", "IMAGE/PNG"}
    /\ ~normalizer.valid

\* C17 as stated: every image processImage() returns, for the three kinds of
\* input, has size equal to the number of bytes its data decodes to and a
\* mimeType among image/jpeg, image/png, image/webp, image/gif and
\* application/octet-stream, whatever MIME type the caller declared or the
\* remote host sent.
C17_Returned == normalizer.op = "processImage" /\ normalizer.result.ok
C17_Image == normalizer.result.image
\* the bytes of the answer to the read or the GET, or the bytes the payload
\* of a base64 input whose prefix was stripped stands for
C17_SourceBytes ==
    IF normalizer.input.type = "base64"
    THEN normalizer.input.data.buf.size
    ELSE normalizer.io.buffer.size
C17_Stripped ==
    normalizer.input.type = "base64" =>
        normalizer.input.data.lead \in {<<>>, PngPrefix, JpegPrefix}
C17_SizeIsDecodedLength ==
    /\ C17_Stripped => C17_Image.size = C17_SourceBytes
    /\ 3 * C17_Image.data.len >= 4 * C17_Image.size
    /\ normalizer.input.type \in {"file", "url"} =>
           /\ C17_Image.data.len % 4 = 0
           /\ 3 * (C17_Image.data.len \div 4) - C17_Image.size \in 0..2
C17_Sniffable ==
    {"image/jpeg", "image/png", "image/webp", "image/gif",
     "application/octet-stream"}
C17_Original ==
    C17_Returned => C17_SizeIsDecodedLength /\ C17_Image.mimeType \in C17_Sniffable

\* C17 as amended: every image processImage() returns has size equal to the
\* number of bytes its data decodes to; its mimeType is the MIME type the
\* caller declared when a base64 input declares one, the media type of the
\* content-type header when the answer to a url input has one, and otherwise
\* (every file input included) one of image/jpeg, image/png, image/webp,
\* image/gif and application/octet-stream.
C17_Declared ==
    CASE normalizer.input.type = "base64" -> normalizer.input.mimeType
      [] normalizer.input.type = "url" /\ normalizer.io.header.present
           -> normalizer.io.header.type
      [] OTHER -> ""
C17_NormalizedImage ==
    C17_Returned =>
        /\ C17_SizeIsDecodedLength
        /\ IF C17_Declared # ""
           THEN C17_Image.mimeType = C17_Declared
           ELSE C17_Image.mimeType \in C17_Sniffable
\* an image has been returned with the MIME type the caller declared, or the
\* remote host sent, outside the five
C17_Witness ==
    /\ C17_Returned
    /\ C17_Image.mimeType \in {"image/bmp", "text/html"}
    /\ C17_Image.size = 13

\* C18 as stated: a base64 input that starts with 'data:image/png;base64,'
\* and declares no MIME type is normalized, whenever a non-empty payload
\* follows the prefix, to data equal to the payload and mimeType image/png.
C18_Prefixed ==
    /\ normalizer.op = "processImage"
    /\ normalizer.input.type = "base64"
    /\ normalizer.input.data.lead = PngPrefix
    /\ normalizer.input.mimeType = ""
C18_Payload == [id |-> normalizer.input.data.id, len |-> normalizer.input.data.len]
C18_Original ==
    C18_Prefixed /\ normalizer.input.data.len > 0 =>
        /\ normalizer.result.ok
        /\ normalizer.result.image.data = C18_Payload
        /\ normalizer.result.image.mimeType = "image/png"

\* C18 as amended: a base64 input that starts with 'data:image/png;base64,'
\* and declares no MIME type is normalized, whenever the payload after the
\* prefix decodes to at least one byte, to data equal to the payload and to
\* the mimeType sniffed from the decoded bytes, which is image/png exactly
\* when the bytes are a PNG (the header parser says so, or it reports none of
\* the four formats and the bytes are four or more and start with
\* 89 50 4E 47); a payload that decodes to no byte is refused with an error.
C18_Bytes == normalizer.input.data.buf
C18_IsPng ==
    \/ C18_Bytes.sharp = "png"
    \/ /\ C18_Bytes.sharp \notin {"jpeg", "webp", "gif"}
       /\ C18_Bytes.size >= 4
       /\ C18_Bytes.head = <<137, 80, 78, 71>>
C18_PrefixStripped ==
    C18_Prefixed =>
        IF C18_Bytes.size > 0
        THEN /\ normalizer.result.ok
             /\ normalizer.result.image.data = C18_Payload
             /\ normalizer.result.image.mimeType \in
                  {"image/jpeg", "image/png", "image/webp", "image/gif",
                   "application/octet-stream"}
             /\ normalizer.result.image.mimeType = "image/png" <=> C18_IsPng
        ELSE /\ ~normalizer.result.ok
             /\ normalizer.result.error \in
                  {"Base64 image processing failed: Empty or invalid base64 data provided",
                   "Base64 image processing failed: Base64 data resulted in empty buffer"}
\* a JPEG behind the PNG prefix has been normalized to image/jpeg
C18_Witness ==
    /\ C18_Prefixed
    /\ normalizer.result.ok
    /\ normalizer.result.image.data = C18_Payload
    /\ normalizer.result.image.mimeType = "image/jpeg"

\* C19: normalizing a base64 input fails with an error, and returns no
\* image, whenever the payload decodes to zero bytes or holds a character
\* outside the base64 alphabet.
C19_Base64 == normalizer.op = "processImage" /\ normalizer.input.type = "base64"
C19_PrefixMatched == normalizer.input.data.lead \in {<<>>, PngPrefix, JpegPrefix}
C19_Malformed == normalizer.input.data.bad > 0 \/ ~C19_PrefixMatched
C19_DecodesToNothing == C19_PrefixMatched /\ normalizer.input.data.buf.size = 0
C19_Claim ==
    C19_Base64 /\ (C19_DecodesToNothing \/ C19_Malformed) => ~normalizer.result.ok

\* C21: every value analyzeImage() returns has exactly one case populated:
\* success with analysis, structuredData and model set and error unset, or
\* failure with error set and analysis, structuredData, model and usage
\* unset; a response with good content and no token usage is a success whose
\* usage is unset.
C21_Value == adapter.promise.value
C21_NoUsageResponse ==
    /\ adapter.outcome.ok
    /\ ~adapter.outcome.data.isNull
    /\ adapter.outcome.data.hasChoices
    /\ Len(adapter.outcome.data.choices) > 0
    /\ ~adapter.outcome.data.choices[1].isNull
    /\ adapter.outcome.data.choices[1].content # <<>>
    /\ ~adapter.outcome.data.usage.set
C21_OneCasePopulated ==
    adapter.pc = "settled" =>
        /\ adapter.promise.settled = "resolved"
        /\ IF C21_Value.success
           THEN /\ C21_Value.analysis # ""
                /\ C21_Value.structuredData.tag # "undefined"
                /\ C21_Value.model # ""
                /\ C21_Value.error = ""
           ELSE /\ C21_Value.error # ""
                /\ C21_Value.analysis = ""
                /\ C21_Value.structuredData.tag = "undefined"
                /\ C21_Value.model = ""
                /\ ~C21_Value.usage.set
        /\ C21_NoUsageResponse => C21_Value.success /\ ~C21_Value.usage.set
\* a response with good content and no usage has settled as a success
C21_Witness ==
    /\ adapter.pc = "settled"
    /\ C21_NoUsageResponse
    /\ C21_Value.success
    /\ ~C21_Value.usage.set

\* C22: once the server has started, a CallTool request naming one of the
\* three advertised tools is routed to that tool's own handler: it is never
\* answered as the request for an unknown tool.
C22_Claim ==
    \A c \in DOMAIN calls :
        calls[c].pc # "free" /\ calls[c].req.name \in ToolNames =>
            ~ /\ calls[c].pc = "rejected"
              /\ calls[c].thrown = "Unknown tool: " \o calls[c].req.name

\* C23: the handler a register function installs for a tool throws
\* 'Unknown tool: <name>' for a request naming another tool and 'Arguments
\* are required' for a request of its own name without arguments; it returns
\* no payload and calls neither the normalizer nor the adapter in both cases.
\* Stated of the handler for each of the three tools, and of every call the
\* registered handler has taken.
C23_Rejects(own, req, call) ==
    ~(req.name = own /\ req.hasArgs) =>
        /\ call.pc = "rejected"
        /\ call.thrown = IF req.name # own THEN "Unknown tool: " \o req.name
                         ELSE "Arguments are required"
        /\ call.result = NoResult /\ call.nResults = 0
        /\ call.acq = "none" /\ call.nAcq = 0
        /\ call.nAdapter = 0 /\ call.nPost = 0 /\ call.up = "none"
C23_RegisteredRejects ==
    /\ \A own \in ToolNames, req \in Requests :
          C23_Rejects(own, req, StartRegistered(own, req))
    /\ handler \in ToolNames =>
          \A c \in DOMAIN calls :
              calls[c].pc # "free" =>
                  C23_Rejects(handler, calls[c].req, calls[c])
C23_Witness ==
    /\ handler = "analyze_mobile_app_screenshot"
    /\ \E c \in DOMAIN calls :
          /\ calls[c].pc = "rejected"
          /\ calls[c].req.name = handler /\ ~calls[c].req.hasArgs
          /\ calls[c].thrown = "Arguments are required"
    /\ \E req \in Requests :
          /\ req.name = "resize_image"
          /\ StartRegistered(handler, req).thrown = "Unknown tool: resize_image"

\* C24: a tool call whose normalized image has a MIME type outside the four
\* supported ones returns the error-flagged result
\* 'Error: Unsupported image type: <mime>' and never reaches the adapter; the
\* type is checked before the size, so an image both unsupported and over
\* the size ceiling is reported as unsupported.
C24_Unsupported(c) ==
    /\ calls[c].hasImage
    /\ calls[c].image.mimeType \notin
         {"image/jpeg", "image/png", "image/webp", "image/gif"}
C24_UnsupportedFirst ==
    \A c \in DOMAIN calls :
        C24_Unsupported(c) =>
            /\ calls[c].pc = "returned"
            /\ calls[c].result.set /\ calls[c].result.isError
            /\ calls[c].result.text =
                 "Error: Unsupported image type: " \o calls[c].image.mimeType
            /\ calls[c].nAdapter = 0
            /\ calls[c].nPost = 0
            /\ calls[c].up = "none"
\* an image of 17 unrecognised bytes, over a ceiling of 16, was refused for
\* its type
C24_Witness ==
    \E c \in DOMAIN calls :
        /\ C24_Unsupported(c)
        /\ calls[c].image.size = 17
        /\ env.maxImageSize = Num(16)
        /\ calls[c].result.text =
             "Error: Unsupported image type: application/octet-stream"

\* C25 as stated: for a url input the normalized MIME type is the
\* content-type header's value up to the first ';' whenever the header is
\* present, and is sniffed from the bytes only when the header is absent; a
\* failed GET yields an error whose message includes the URL.
C25_Url == normalizer.op = "processImage" /\ normalizer.input.type = "url"
C25_UrlInMessage ==
    normalizer.result.error =
        "Failed to fetch image from URL " \o normalizer.input.data.id \o ": "
          \o normalizer.io.error
C25_Sniffed ==
    normalizer.result.image.mimeType \in
        {"image/jpeg", "image/png", "image/webp", "image/gif",
         "application/octet-stream"}
C25_Original ==
    C25_Url =>
        IF ~normalizer.io.ok THEN ~normalizer.result.ok /\ C25_UrlInMessage
        ELSE /\ normalizer.result.ok
             /\ normalizer.io.header.present =>
                    normalizer.result.image.mimeType = normalizer.io.header.type
             /\ ~normalizer.io.header.present => C25_Sniffed

\* C25 as amended: for a url input the normalized MIME type is the
\* content-type header's value up to the first ';', trimmed, whenever the
\* header is present and that value is not empty, and is sniffed from the
\* bytes when the header is absent or its value up to the first ';' is
\* empty; a failed GET yields an error whose message includes the URL.
C25_HeaderType ==
    IF normalizer.io.header.present THEN normalizer.io.header.type ELSE ""
C25_UrlMimeType ==
    C25_Url =>
        IF ~normalizer.io.ok THEN ~normalizer.result.ok /\ C25_UrlInMessage
        ELSE /\ normalizer.result.ok
             /\ C25_HeaderType # "" =>
                    normalizer.result.image.mimeType = C25_HeaderType
             /\ C25_HeaderType = "" =>
                    /\ C25_Sniffed
                    /\ normalizer.io.buffer.sharp = "png" =>
                           normalizer.result.image.mimeType = "image/png"
\* the answer had the header '; charset=utf-8' and the type was sniffed
C25_Witness ==
    /\ C25_Url
    /\ normalizer.io.ok
    /\ normalizer.io.header.present
    /\ normalizer.io.header.type = ""
    /\ normalizer.result.ok
    /\ normalizer.result.image.mimeType = "image/jpeg"

\* C26: on a buffer whose header parsing fails, whose bytes 0-3 are
\* 52 49 46 46 and whose bytes 8-11 are ASCII 'WEBP', a buffer of exactly 12
\* bytes included, the sniffer answers image/webp.
C26_RiffWebp ==
    /\ normalizer.op = "detectMimeType"
    /\ normalizer.buffer.sharp = "fail"
    /\ normalizer.buffer.size >= 12
    /\ normalizer.buffer.head = <<82, 73, 70, 70>>
    /\ normalizer.buffer.webp8
C26_Claim == C26_RiffWebp => normalizer.sniffed = "image/webp"

\* C27: with MAX_IMAGE_SIZE set to N, an image of a supported type and of at
\* most N bytes is rejected for its size nowhere, neither by the handler's
\* ceiling nor by the adapter's check of the payload, and reaches the POST.
C27_Within(c) ==
    /\ env.maxImageSize.set /\ env.maxImageSize.n > 0
    /\ calls[c].hasImage
    /\ calls[c].image.mimeType \in
         {"image/jpeg", "image/png", "image/webp", "image/gif"}
    /\ calls[c].image.size <= env.maxImageSize.n
    /\ calls[c].req.args.prompt.len <= 10000
C27_Claim ==
    \A c \in DOMAIN calls : C27_Within(c) => calls[c].nPost >= 1

\* C28: the temperature sent upstream is the temperature the caller of
\* analyze_image supplied, for every value the tool schema allows (0 to 2,
\* here in tenths, 0 included); 0.1 is sent only when the caller supplied
\* none.
C28_Claim ==
    adapter.nPost = 1 /\ adapter.tool = "analyze_image" =>
        adapter.body.temperature =
            IF adapter.args.temperature.set THEN adapter.args.temperature.n
            ELSE 1

\* C29: once a tool call has returned its result, no later event of that
\* call (the abandoned acquisition or POST completing, a timer firing)
\* issues an upstream request, changes the result or produces a second one.
C29_ReturnedIsFinal ==
    [][ \A c \in DOMAIN calls :
          calls[c].pc = "returned" /\ calls'[c] # NoCall =>
              /\ calls'[c].pc = "returned"
              /\ calls'[c].result = calls[c].result
              /\ calls'[c].nResults = 1
              /\ calls'[c].nPost = calls[c].nPost
              /\ calls'[c].nAdapter = calls[c].nAdapter
              /\ calls'[c].up = "inflight" => calls[c].up = "inflight"
              /\ proc' = proc ]_vars
\* the acquisition of a call that had timed out completed afterwards, or the
\* POST of one that had timed out was answered afterwards
C29_Witness ==
    \E c \in DOMAIN calls :
        /\ calls[c].pc = "returned"
        /\ \/ /\ calls[c].ptimer = "fired" /\ calls[c].acq = "done"
              /\ calls[c].result.text =
                   "Error: " \o ProcessTimeoutMessage \o
                   ". The image may be too large or the server is experiencing delays."
              /\ ~calls[c].hasImage
           \/ /\ calls[c].atimer = "fired" /\ calls[c].up = "done"
              /\ calls[c].result.text =
                   "Error: " \o ApiTimeoutMessage \o
                   ". The image may be too large or the server is experiencing delays."

\* C30: everything written to standard output once server.connect() has
\* returned is a protocol message; the log lines of every level, at startup
\* and during tool calls, are on standard error.
C30_Claim ==
    \A e \in out : e.connected /\ e.stream = "stdout" => e.kind = "protocol"

====
